---------------------------- MODULE Spec2Model ----------------------------
(***************************************************************************)
(* Managarr: a dashboard over Sonarr / Radarr / Plex instances.            *)
(*                                                                         *)
(* The module models                                                       *)
(*   - the instance registry and its REST routes (server/routes/instances),*)
(*   - the upstream proxy (services/arrProxy and the sonarr / radarr /     *)
(*     plex routers),                                                      *)
(*   - the connection tester (services/connectionTest),                    *)
(*   - the Duplicates report of the client (pages/Duplicates).             *)
(*                                                                         *)
(* Environment: request ids range over well-formed ObjectIds and the       *)
(* datastore answers every query, so the handlers' catch branches that     *)
(* answer 500 after a datastore exception are not taken.                   *)
(***************************************************************************)
EXTENDS Integers, Sequences, FiniteSets, TLC

VARIABLES
    instances,   \* the Instance collection: a set of documents
    nextId,      \* the next ObjectId the datastore hands out
    req,         \* the inbound request handled last
    res,         \* the response sent for it
    outbound,    \* the upstream requests issued while handling it
    dup,         \* the Duplicates page: instance list, catalogs, query data, report
    view,        \* the other page mounted in the client: its queries and state
    settings     \* the Settings collection: a set of documents

vars == <<instances, nextId, req, res, outbound, dup, view, settings>>

---------------------------------------------------------------------------
(* Bounds and input domains                                                *)

MaxId == 2                      \* ObjectIds the datastore hands out in a run

ObjectIds == 1 .. MaxId         \* well-formed ids a request can carry

InstanceTypes == {"sonarr", "radarr", "plex"}
Names == {"A", "B"}
Keys == {"k1", "k2"}
Url == <<"http://h">>           \* a URL as the sequence of its pieces
UrlSlash == <<"http://h", "/">> \* the same URL written with a trailing slash
Fields == {"name", "type", "url", "apiKey", "isEnabled"}

\* length of the sample names (z.string().min(1).max(100))
NameLen(n) == CASE n = "" -> 0 [] n = "LONG" -> 101 [] OTHER -> 1
MinNameLen == 1
MaxNameLen == 100

NoReq == [op |-> "none"]
NoRes == [status |-> 0, body |-> [kind |-> "none"]]
NoDup == [phase |-> "off"]
NoView == [page |-> "none"]

---------------------------------------------------------------------------
(* The Instance model (models/Instance) and the datastore queries          *)

Ids(coll) == {d._id : d \in coll}

findById(coll, id) == {d \in coll : d._id = id}

\* a projection that forgets to drop the credential
SelectEverything(doc) == doc

\* .select('-apiKey'): the projection of a document without its credential
SelectMinusApiKey(doc) == [f \in (DOMAIN doc) \ {"apiKey"} |-> doc[f]]

TypeRank(t) == CASE t = "plex" -> 1 [] t = "radarr" -> 2 [] t = "sonarr" -> 3
NameRank(n) == CASE n = "A" -> 1 [] n = "B" -> 2

\* .sort({ type: 1, name: 1 }); ties are listed in insertion order
LessTypeName(a, b) ==
    \/ TypeRank(a.type) < TypeRank(b.type)
    \/ /\ a.type = b.type
       /\ \/ NameRank(a.name) < NameRank(b.name)
          \/ a.name = b.name /\ a._id < b._id

\* .sort({ name: 1 })
LessName(a, b) ==
    \/ NameRank(a.name) < NameRank(b.name)
    \/ a.name = b.name /\ a._id < b._id

SortTypeName(S) ==
    CHOOSE s \in [1 .. Cardinality(S) -> S] :
        \A i, j \in 1 .. Cardinality(S) : i < j => LessTypeName(s[i], s[j])

SortName(S) ==
    CHOOSE s \in [1 .. Cardinality(S) -> S] :
        \A i, j \in 1 .. Cardinality(S) : i < j => LessName(s[i], s[j])

Project(s) == [i \in 1 .. Len(s) |-> SelectMinusApiKey(s[i])]

---------------------------------------------------------------------------
(* instanceSchema (zod) and the payloads a client can send                 *)

ValidFull ==
    {[name |-> n, type |-> t, url |-> Url, apiKey |-> k, isEnabled |-> e] :
        n \in Names, t \in InstanceTypes, k \in Keys, e \in BOOLEAN}

Sample == [name |-> "A", type |-> "sonarr", url |-> Url, apiKey |-> "k1",
           isEnabled |-> TRUE]

\* one malformed payload per rule of the schema
InvalidFull ==
    { [Sample EXCEPT !.name = ""],
      [Sample EXCEPT !.name = "LONG"],
      [Sample EXCEPT !.type = "other"],
      [Sample EXCEPT !.url = <<"not a url">>],
      [Sample EXCEPT !.apiKey = ""] }

Restrict(p, S) == [f \in S |-> p[f]]

FieldOk(f, v) ==
    CASE f = "name" -> NameLen(v) >= MinNameLen /\ NameLen(v) <= MaxNameLen
      [] f = "type" -> v \in InstanceTypes
      [] f = "url" -> v \in {Url, UrlSlash}
      [] f = "apiKey" -> v # ""
      [] f = "isEnabled" -> v \in BOOLEAN

\* instanceSchema.parse: every field but isEnabled is required
SchemaOk(p) ==
    /\ (Fields \ {"isEnabled"}) \subseteq DOMAIN p
    /\ \A f \in (DOMAIN p) \cap Fields : FieldOk(f, p[f])

\* a partial schema that checks no field
PartialOkUnchecked(p) == DOMAIN p = DOMAIN p

\* instanceSchema.partial().parse: every field is optional
PartialOk(p) == \A f \in (DOMAIN p) \cap Fields : FieldOk(f, p[f])

\* the parsed object: unknown keys are stripped, isEnabled defaults to true
Parsed(p) ==
    [f \in Fields |->
        IF f \in DOMAIN p THEN p[f] ELSE TRUE]

\* the parsed object of the partial schema: only the keys that were sent
ParsedPartial(p) == Restrict(p, (DOMAIN p) \cap Fields)

\* POST bodies: complete payloads, with and without the optional flag, payloads
\* that miss the credential, and payloads that carry a key the schema ignores
CreatePayloads ==
    {Restrict(p, S) : p \in ValidFull, S \in {Fields, Fields \ {"isEnabled"}}}
    \cup {Restrict(p, S) : p \in InvalidFull \cup {Sample},
                           S \in {Fields, Fields \ {"apiKey"}}}
    \cup {Sample @@ [_id |-> i] : i \in ObjectIds}

\* PUT bodies: every subset of the fields of two complete payloads (the edit
\* form sends name, type, url, isEnabled and, when filled in, apiKey; the list
\* page sends isEnabled alone), and the malformed fields alone or in a full one
UpdateTemplates ==
    { [name |-> "A", type |-> "sonarr", url |-> Url, apiKey |-> "k1",
       isEnabled |-> TRUE],
      [name |-> "B", type |-> "plex", url |-> Url, apiKey |-> "k2",
       isEnabled |-> FALSE] }

UpdatePayloads ==
    {Restrict(p, S) : p \in UpdateTemplates, S \in SUBSET Fields}
    \cup {Restrict(p, S) : p \in InvalidFull,
                           S \in {Fields} \cup {{f} : f \in Fields}}

---------------------------------------------------------------------------
(* routes/instances                                                        *)

ErrorBody(msg) == [kind |-> "error", error |-> msg]

\* router.get('/')
GetInstances ==
    /\ req' = [op |-> "list"]
    /\ res' = [status |-> 200,
               body |-> [kind |-> "list",
                         items |-> Project(SortTypeName(instances))]]
    /\ outbound' = <<>>
    /\ UNCHANGED <<instances, nextId, dup, view, settings>>

\* router.get('/type/:type')
GetInstancesByType ==
    \E type \in InstanceTypes \cup {"other"} :
        /\ req' = [op |-> "listByType", type |-> type]
        /\ res' = IF type \notin InstanceTypes
                  THEN [status |-> 400, body |-> ErrorBody("Invalid instance type")]
                  ELSE [status |-> 200,
                        body |-> [kind |-> "list",
                                  items |-> Project(SortName(
                                      {d \in instances : d.type = type}))]]
        /\ outbound' = <<>>
        /\ UNCHANGED <<instances, nextId, dup, view, settings>>

\* router.get('/:id')
GetInstanceById ==
    \E id \in ObjectIds :
        /\ req' = [op |-> "get", id |-> id]
        /\ res' = IF findById(instances, id) = {}
                  THEN [status |-> 404, body |-> ErrorBody("Instance not found")]
                  ELSE [status |-> 200,
                        body |-> [kind |-> "doc",
                                  doc |-> SelectMinusApiKey(
                                      CHOOSE d \in findById(instances, id) : TRUE)]]
        /\ outbound' = <<>>
        /\ UNCHANGED <<instances, nextId, dup, view, settings>>

\* router.post('/')
CreateInstance ==
    \E p \in CreatePayloads :
        /\ req' = [op |-> "create", body |-> p]
        /\ outbound' = <<>>
        /\ UNCHANGED <<dup, view, settings>>
        /\ IF ~SchemaOk(p)
           THEN /\ res' = [status |-> 400,
                           body |-> [kind |-> "error", error |-> "Validation failed",
                                     details |-> {f \in Fields :
                                         \/ f \notin DOMAIN p /\ f # "isEnabled"
                                         \/ f \in DOMAIN p /\ ~FieldOk(f, p[f])}]]
                /\ UNCHANGED <<instances, nextId>>
           ELSE /\ nextId <= MaxId
                /\ LET doc == Parsed(p) @@ [_id |-> nextId]
                   IN /\ instances' = instances \cup {doc}
                      /\ res' = [status |-> 201,
                                 body |-> [kind |-> "doc",
                                           doc |-> SelectMinusApiKey(doc)]]
                /\ nextId' = nextId + 1

\* an update that fills the enabled flag in when the payload omits it
ApplyUpdateDefaulting(doc, upd) ==
    [f \in DOMAIN doc |-> IF f \in DOMAIN upd THEN upd[f]
                          ELSE IF f = "isEnabled" THEN TRUE ELSE doc[f]]

\* Model.findByIdAndUpdate(id, update, { new: true }): $set of the given keys
ApplyUpdate(doc, upd) ==
    [f \in DOMAIN doc |-> IF f \in DOMAIN upd THEN upd[f] ELSE doc[f]]

\* router.put('/:id')
UpdateInstance ==
    \E id \in ObjectIds, p \in UpdatePayloads :
        /\ req' = [op |-> "update", id |-> id, body |-> p]
        /\ outbound' = <<>>
        /\ UNCHANGED <<nextId, dup, view, settings>>
        /\ IF ~PartialOk(p)
           THEN /\ res' = [status |-> 400,
                           body |-> [kind |-> "error", error |-> "Validation failed",
                                     details |-> {f \in (DOMAIN p) \cap Fields :
                                                    ~FieldOk(f, p[f])}]]
                /\ UNCHANGED instances
           ELSE IF findById(instances, id) = {}
           THEN /\ res' = [status |-> 404, body |-> ErrorBody("Instance not found")]
                /\ UNCHANGED instances
           ELSE LET old == CHOOSE d \in findById(instances, id) : TRUE
                    new == ApplyUpdate(old, ParsedPartial(p))
                IN /\ instances' = (instances \ {old}) \cup {new}
                   /\ res' = [status |-> 200,
                              body |-> [kind |-> "doc",
                                        doc |-> SelectMinusApiKey(new)]]

\* a delete that answers without removing the document
RemovedNothing(coll, id) == coll

\* Model.findByIdAndDelete(id): the collection without the document
Removed(coll, id) == {d \in coll : d._id # id}

\* router.delete('/:id')
DeleteInstance ==
    \E id \in ObjectIds :
        /\ req' = [op |-> "delete", id |-> id]
        /\ outbound' = <<>>
        /\ UNCHANGED <<nextId, dup, view, settings>>
        /\ IF findById(instances, id) = {}
           THEN /\ res' = [status |-> 404, body |-> ErrorBody("Instance not found")]
                /\ UNCHANGED instances
           ELSE /\ instances' = Removed(instances, id)
                /\ res' = [status |-> 200,
                           body |-> [kind |-> "message",
                                     message |-> "Instance deleted"]]

---------------------------------------------------------------------------
(* services/arrProxy: the upstream proxy                                   *)

Nil == "nil"                    \* an absent (undefined) value
NoBody == "none"                \* a request without a body

BodyMethods == {"POST", "PUT", "PATCH"}
ProxyTimeout == 30000

\* what axios(config) can come back with: a response (2xx resolves, any other
\* status rejects with an AxiosError that carries the response), an AxiosError
\* without a response (network error, timeout), or some other exception
Is2xx(s) == s >= 200 /\ s <= 299

Response(s, d, m) ==
    [kind |-> "response", status |-> s, data |-> d, message |-> m, code |-> Nil]
NoResponse(c) ==
    [kind |-> "noResponse", status |-> 0, data |-> Nil, message |-> Nil, code |-> c]
Thrown ==
    [kind |-> "thrown", status |-> 0, data |-> Nil, message |-> Nil, code |-> Nil]

ProxyOutcomes ==
    { Response(200, "d1", Nil), Response(201, "d2", Nil),
      Response(404, "e1", "upstream message"), Response(500, "e2", Nil),
      NoResponse("ECONNREFUSED"), NoResponse("ECONNABORTED"), Thrown }

\* error.message of an AxiosError
AxiosMessage(o) ==
    IF o.kind = "response" THEN "Request failed with status code"
    ELSE IF o.code = "ECONNABORTED" THEN "timeout exceeded"
    ELSE "connect ECONNREFUSED"

\* instance.url.replace(/\/$/, '')
BaseUrl(url) ==
    IF Len(url) > 0 /\ url[Len(url)] = "/" THEN SubSeq(url, 1, Len(url) - 1)
    ELSE url

\* path.startsWith('/') ? path : `/${path}`, on the part before the query string
ApiPath(path) ==
    IF Len(path.suffix) > 0 /\ path.suffix[1] = "/" THEN path
    ELSE [path EXCEPT !.suffix = <<"/">> \o path.suffix]

ProxyFailure(msg, status) ==
    [success |-> FALSE, data |-> Nil, status |-> status, error |-> msg]

\* the try block's tail and the catch block: await axios(config)
AxiosResult(o) ==
    IF o.kind = "response" /\ Is2xx(o.status)
    THEN [success |-> TRUE, data |-> o.data, status |-> o.status, error |-> Nil]
    ELSE IF o.kind = "thrown"
    THEN ProxyFailure("Proxy request failed", 500)
    ELSE ProxyFailure(
            IF o.kind = "response" /\ o.message # Nil THEN o.message
            ELSE AxiosMessage(o),
            IF o.kind = "response" THEN o.status ELSE 500)

UpstreamRequest(method, base, api, path, headers, data) ==
    [method |-> method, base |-> base, api |-> api, suffix |-> path.suffix,
     query |-> path.query, headers |-> headers,
     data |-> IF data # Nil /\ data # NoBody /\ method \in BodyMethods
              THEN data ELSE NoBody,
     timeout |-> ProxyTimeout]

\* a proxy that forwards to a disabled instance as well
proxyToArrIgnoringEnabled(coll, instanceId, path, method, data, o) ==
    IF findById(coll, instanceId) = {}
    THEN [result |-> ProxyFailure("Instance not found", 404), sent |-> <<>>]
    ELSE LET instance == CHOOSE d \in findById(coll, instanceId) : TRUE
         IN [result |-> AxiosResult(o),
             sent |-> << UpstreamRequest(method, BaseUrl(instance.url),
                            "/api/v3", ApiPath(path),
                            ("X-Api-Key" :> instance.apiKey)
                                @@ ("Content-Type" :> "application/json"),
                            data) >>]

\* proxyToArr(instanceId, path, method, data); o is what axios comes back with
proxyToArr(coll, instanceId, path, method, data, o) ==
    IF findById(coll, instanceId) = {}
    THEN [result |-> ProxyFailure("Instance not found", 404), sent |-> <<>>]
    ELSE LET instance == CHOOSE d \in findById(coll, instanceId) : TRUE
         IN IF ~instance.isEnabled
            THEN [result |-> ProxyFailure("Instance is disabled", 400), sent |-> <<>>]
            ELSE [result |-> AxiosResult(o),
                  sent |-> << UpstreamRequest(method, BaseUrl(instance.url),
                                 "/api/v3", ApiPath(path),
                                 ("X-Api-Key" :> instance.apiKey)
                                     @@ ("Content-Type" :> "application/json"),
                                 data) >>]

\* proxyToPlex(instanceId, path, method, data)
proxyToPlex(coll, instanceId, path, method, data, o) ==
    IF findById(coll, instanceId) = {}
    THEN [result |-> ProxyFailure("Instance not found", 404), sent |-> <<>>]
    ELSE LET instance == CHOOSE d \in findById(coll, instanceId) : TRUE
         IN IF instance.type # "plex"
            THEN [result |-> ProxyFailure("Not a Plex instance", 400), sent |-> <<>>]
            ELSE IF ~instance.isEnabled
            THEN [result |-> ProxyFailure("Instance is disabled", 400), sent |-> <<>>]
            ELSE [result |-> AxiosResult(o),
                  sent |-> << UpstreamRequest(method, BaseUrl(instance.url),
                                 "", ApiPath(path),
                                 ("X-Plex-Token" :> instance.apiKey)
                                     @@ ("Accept" :> "application/json"),
                                 data) >>]

---------------------------------------------------------------------------
(* routes/sonarr, routes/radarr, routes/plex                               *)

\* the inbound requests: method, path after the instance id, query string
\* (a sequence of key=value pairs) and body
Pair(k, v) == [k |-> k, v |-> <<v>>]

Inbound(method, suffix, query, body) ==
    [method |-> method, suffix |-> suffix, query |-> query, body |-> body]

RequestSamples ==
    { Inbound("GET", <<"series">>, <<>>, NoBody),
      Inbound("GET", <<>>, <<>>, NoBody),
      Inbound("GET", <<"wanted", "/", "cutoff">>,
              <<Pair("pageSize", "50"), Pair("includeSeries", "true")>>, NoBody),
      Inbound("GET", <<"history">>,
              <<Pair("eventType", "1"), Pair("eventType", "3")>>, NoBody),
      Inbound("PUT", <<"series", "/", "1">>, <<Pair("moveFiles", "true")>>, "b1"),
      Inbound("POST", <<"command">>, <<>>, "b2"),
      Inbound("DELETE", <<"series", "/", "1">>, <<>>, "b1") }

\* req.query: the query string parsed into an object; a repeated key holds
\* the list of its values
RECURSIVE ValuesOf(_, _)
ValuesOf(q, k) ==
    IF q = <<>> THEN <<>>
    ELSE (IF q[1].k = k THEN <<q[1].v>> ELSE <<>>) \o ValuesOf(Tail(q), k)

\* String(list): the values joined by commas, the comma then percent-encoded
RECURSIVE JoinValues(_)
JoinValues(vs) ==
    IF Len(vs) = 1 THEN vs[1]
    ELSE vs[1] \o <<"%2C">> \o JoinValues(Tail(vs))

\* new URLSearchParams(req.query).toString(): one pair per key, in the order
\* of the keys' first occurrence
RECURSIVE QueryKeysInOrder(_, _)
QueryKeysInOrder(q, seen) ==
    IF q = <<>> THEN <<>>
    ELSE IF q[1].k \in seen THEN QueryKeysInOrder(Tail(q), seen)
    ELSE <<q[1].k>> \o QueryKeysInOrder(Tail(q), seen \cup {q[1].k})

queryString(q) ==
    LET ks == QueryKeysInOrder(q, {})
    IN [i \in 1 .. Len(ks) |-> [k |-> ks[i], v |-> JoinValues(ValuesOf(q, ks[i]))]]

\* result -> response of the catch-all routes
RelayAll(result) ==
    IF result.success
    THEN [status |-> IF result.status # 0 THEN result.status ELSE 200,
          body |-> [kind |-> "data", data |-> result.data]]
    ELSE [status |-> IF result.status # 0 THEN result.status ELSE 500,
          body |-> ErrorBody(result.error)]

\* result -> response of the fixed routes: res.json(result.data)
RelayGet(result) ==
    IF result.success
    THEN [status |-> 200, body |-> [kind |-> "data", data |-> result.data]]
    ELSE [status |-> IF result.status # 0 THEN result.status ELSE 500,
          body |-> ErrorBody(result.error)]

Handled(route, id, in, o, out, relay) ==
    /\ req' = [op |-> "proxy", route |-> route, id |-> id, in |-> in, upstream |-> o]
    /\ res' = relay
    /\ outbound' = out.sent
    /\ UNCHANGED <<instances, nextId, dup, view, settings>>

\* sonarrRoutes: router.all('/:instanceId/*')
SonarrAll ==
    \E id \in ObjectIds, in \in RequestSamples, o \in ProxyOutcomes :
        LET path == [suffix |-> in.suffix, query |-> queryString(in.query)]
            out == proxyToArr(instances, id, path, in.method, in.body, o)
        IN Handled("sonarr/*", id, in, o, out, RelayAll(out.result))

\* radarrRoutes: router.all('/:instanceId/*')
RadarrAll ==
    \E id \in ObjectIds, in \in RequestSamples, o \in ProxyOutcomes :
        LET path == [suffix |-> in.suffix, query |-> queryString(in.query)]
            out == proxyToArr(instances, id, path, in.method, in.body, o)
        IN Handled("radarr/*", id, in, o, out, RelayAll(out.result))

\* plexRoutes: router.all('/:instanceId/*'); GET requests for libraries and
\* metadata are taken by the routes registered before it
PlexAll ==
    \E id \in ObjectIds, in \in RequestSamples, o \in ProxyOutcomes :
        LET path == [suffix |-> <<"/">> \o in.suffix, query |-> <<>>]
            out == proxyToPlex(instances, id, path, in.method, in.body, o)
        IN Handled("plex/*", id, in, o, out, RelayAll(out.result))

FixedGet(suffix) == Inbound("GET", suffix, <<>>, NoBody)

\* sonarrRoutes: router.get('/:instanceId')
SonarrSeries ==
    \E id \in ObjectIds, o \in ProxyOutcomes :
        LET out == proxyToArr(instances, id, [suffix |-> <<"/", "series">>, query |-> <<>>],
                              "GET", Nil, o)
        IN Handled("sonarr", id, FixedGet(<<>>), o, out, RelayGet(out.result))

\* radarrRoutes: router.get('/:instanceId')
RadarrMovies ==
    \E id \in ObjectIds, o \in ProxyOutcomes :
        LET out == proxyToArr(instances, id, [suffix |-> <<"/", "movie">>, query |-> <<>>],
                              "GET", Nil, o)
        IN Handled("radarr", id, FixedGet(<<>>), o, out, RelayGet(out.result))

\* plexRoutes: router.get('/:instanceId/libraries'),
\* router.get('/:instanceId/libraries/:libraryId'),
\* router.get('/:instanceId/metadata/:ratingKey')
PlexFixedPaths ==
    { <<"libraries">>, <<"libraries", "/", "1">>, <<"metadata", "/", "7">> }

PlexTarget(suffix) ==
    IF suffix = <<"libraries">> THEN <<"/", "library", "/", "sections">>
    ELSE IF suffix[1] = "libraries"
    THEN <<"/", "library", "/", "sections", "/", suffix[3], "/", "all">>
    ELSE <<"/", "library", "/", "metadata", "/", suffix[3]>>

PlexGet ==
    \E id \in ObjectIds, suffix \in PlexFixedPaths, o \in ProxyOutcomes :
        LET out == proxyToPlex(instances, id,
                               [suffix |-> PlexTarget(suffix), query |-> <<>>],
                               "GET", Nil, o)
        IN Handled("plex", id, FixedGet(suffix), o, out, RelayGet(out.result))

---------------------------------------------------------------------------
(* services/connectionTest: the connection tester                          *)

TestTimeout == 10000
Unauthorized == 401

\* the body of the status response: a JSON object that may report a version
\* and (Plex) a machine identifier, or the JSON value null
StatusData(isNull, version, machineId) ==
    [isNull |-> isNull, version |-> version, machineId |-> machineId]

TestOutcomes ==
    { Response(200, StatusData(FALSE, "4.0", "abcdefgh"), Nil),
      Response(200, StatusData(FALSE, Nil, Nil), Nil),
      Response(200, StatusData(TRUE, Nil, Nil), Nil),
      Response(401, StatusData(FALSE, Nil, Nil), Nil),
      Response(403, StatusData(FALSE, Nil, Nil), Nil),
      Response(500, StatusData(FALSE, Nil, Nil), Nil),
      NoResponse("ECONNREFUSED"), NoResponse("ETIMEDOUT"),
      NoResponse("ECONNABORTED"), NoResponse("ENOTFOUND"), Thrown }

Return(v) == [kind |-> "return", value |-> v]
Throw(e) == [kind |-> "throw", error |-> e]

TestResult(success, message, version, error) ==
    [success |-> success, message |-> message, version |-> version, error |-> error]

\* a catch block that takes 403 for the status of a rejected credential
TestCatchOn403(o, invalid) ==
    IF o.kind = "response" /\ o.status = 403
    THEN Return(TestResult(FALSE, invalid, Nil, Nil))
    ELSE IF o.kind # "thrown" /\ o.code = "ECONNREFUSED"
    THEN Return(TestResult(FALSE, "Connection refused - check URL", Nil, Nil))
    ELSE IF o.kind # "thrown" /\ o.code \in {"ETIMEDOUT", "ECONNABORTED"}
    THEN Return(TestResult(FALSE, "Connection timed out", Nil, Nil))
    ELSE Throw(IF o.kind = "thrown" THEN "not an Error" ELSE AxiosMessage(o))

\* the catch block shared by testArrConnection and testPlexConnection
TestCatch(o, invalid) ==
    IF o.kind # "thrown" /\ o.kind = "response" /\ o.status = Unauthorized
    THEN Return(TestResult(FALSE, invalid, Nil, Nil))
    ELSE IF o.kind # "thrown" /\ o.code = "ECONNREFUSED"
    THEN Return(TestResult(FALSE, "Connection refused - check URL", Nil, Nil))
    ELSE IF o.kind # "thrown" /\ o.code \in {"ETIMEDOUT", "ECONNABORTED"}
    THEN Return(TestResult(FALSE, "Connection timed out", Nil, Nil))
    ELSE Throw(IF o.kind = "thrown" THEN "not an Error" ELSE AxiosMessage(o))

\* testArrConnection(url, apiKey)
testArrConnection(url, apiKey, o) ==
    [sent |-> << [method |-> "GET", base |-> url,
                  path |-> <<"/api/v3/system/status">>,
                  headers |-> ("X-Api-Key" :> apiKey), timeout |-> TestTimeout] >>,
     out |-> IF o.kind = "response" /\ Is2xx(o.status)
             THEN IF o.data.isNull
                  THEN Throw("Cannot read properties of null")
                  ELSE Return(TestResult(TRUE, "Connection successful",
                                         o.data.version, Nil))
             ELSE TestCatch(o, "Invalid API key")]

\* testPlexConnection(url, token)
testPlexConnection(url, token, o) ==
    [sent |-> << [method |-> "GET", base |-> url, path |-> <<"/identity">>,
                  headers |-> ("X-Plex-Token" :> token)
                                  @@ ("Accept" :> "application/json"),
                  timeout |-> TestTimeout] >>,
     out |-> IF o.kind = "response" /\ Is2xx(o.status)
             THEN IF o.data.isNull
                  THEN Throw("Cannot read properties of null")
                  ELSE Return(TestResult(TRUE,
                           IF o.data.machineId # Nil
                           THEN "Connected to Plex server (id)"
                           ELSE "Connected to Plex server",
                           o.data.version, Nil))
             ELSE TestCatch(o, "Invalid Plex token")]

\* a testConnection without its catch block
TestConnectionNoCatch(t) == t

\* the catch block of testConnection: whatever the kind's tester throws
TestConnectionCatch(t) ==
    IF t.out.kind = "throw"
    THEN [t EXCEPT !.out = Return(TestResult(FALSE, "Connection failed", Nil,
                                IF t.out.error = "not an Error" THEN "Unknown error"
                                ELSE t.out.error))]
    ELSE t

\* testConnection(type, url, apiKey)
testConnection(type, url, apiKey, o) ==
    IF type \in {"sonarr", "radarr"}
    THEN TestConnectionCatch(testArrConnection(BaseUrl(url), apiKey, o))
    ELSE IF type = "plex"
    THEN TestConnectionCatch(testPlexConnection(BaseUrl(url), apiKey, o))
    ELSE [sent |-> <<>>,
          out |-> Return(TestResult(FALSE, "Unknown instance type", Nil, Nil))]

\* what a route that awaits testConnection answers
TestResponse(t) ==
    IF t.out.kind = "return"
    THEN [status |-> 200, body |-> [kind |-> "test", result |-> t.out.value]]
    ELSE [status |-> 500, body |-> ErrorBody("Failed to test connection")]

\* router.post('/:id/test')
TestInstance ==
    \E id \in ObjectIds, o \in TestOutcomes :
        /\ UNCHANGED <<instances, nextId, dup, view, settings>>
        /\ IF findById(instances, id) = {}
           THEN /\ req' = [op |-> "test", id |-> id, type |-> Nil, upstream |-> NoResponse(Nil)]
                /\ res' = [status |-> 404, body |-> ErrorBody("Instance not found")]
                /\ outbound' = <<>>
           ELSE LET instance == CHOOSE d \in findById(instances, id) : TRUE
                    t == testConnection(instance.type, instance.url,
                                        instance.apiKey, o)
                IN /\ req' = [op |-> "test", id |-> id, type |-> instance.type,
                              upstream |-> o]
                   /\ res' = TestResponse(t)
                   /\ outbound' = t.sent

\* the bodies sent to POST /instances/test; Nil is a field left out
TestBodies ==
    {[type |-> t, url |-> u, apiKey |-> k] :
        t \in InstanceTypes \cup {"other", Nil}, u \in {Url, UrlSlash, <<>>},
        k \in {"k1", Nil}}

\* router.post('/test')
TestUnsaved ==
    \E b \in TestBodies, o \in TestOutcomes :
        /\ UNCHANGED <<instances, nextId, dup, view, settings>>
        /\ IF b.type = Nil \/ b.url = <<>> \/ b.apiKey = Nil
           THEN /\ req' = [op |-> "testUnsaved", id |-> 0, type |-> b.type,
                           upstream |-> NoResponse(Nil)]
                /\ res' = [status |-> 400, body |-> ErrorBody("Missing required fields")]
                /\ outbound' = <<>>
           ELSE LET t == testConnection(b.type, b.url, b.apiKey, o)
                IN /\ req' = [op |-> "testUnsaved", id |-> 0, type |-> b.type,
                              upstream |-> o]
                   /\ res' = TestResponse(t)
                   /\ outbound' = t.sent

---------------------------------------------------------------------------
(* client/pages/Duplicates: the duplicates report                          *)

MaxItems == 3                   \* items the instances return, all together
DupInstances == <<1, 2>>        \* the instance list the page iterates over
NoStatistics == -1              \* a series without a statistics object

Titles == {<<"A", "b">>, <<"a", "b">>}
Years == {1999, 2003}
Punctuated == <<"a", "-", "b">>     \* a title with a non-alphanumeric character

\* what an instance can return: items with an external id (tmdbId / tvdbId)
\* under either title and year, and items without one (id 0)
ItemShapes ==
    {[extId |-> 1, title |-> <<"A", "b">>, year |-> 1999],
     [extId |-> 1, title |-> <<"a", "b">>, year |-> 2003],
     [extId |-> 2, title |-> <<"A", "b">>, year |-> 1999]}
    \cup {[extId |-> 0, title |-> t, year |-> y] : t \in Titles, y \in Years}
    \cup {[extId |-> 0, title |-> Punctuated, year |-> 1999]}

Item(shape, size) ==
    [extId |-> shape.extId, title |-> shape.title, year |-> shape.year,
     sizeOnDisk |-> size]

Movies == {Item(sh, sz) : sh \in ItemShapes, sz \in {1, 2}}
SeriesItems == {Item(sh, sz) : sh \in ItemShapes, sz \in {NoStatistics, 2}}

\* String.prototype.toLowerCase
LowerChar(c) == CASE c = "A" -> "a" [] c = "B" -> "b" [] OTHER -> c
toLowerCase(t) == [i \in 1 .. Len(t) |-> LowerChar(t[i])]

\* the key of a group: `tmdb-${id}` or `title-${title}-${year}`
IdKey(scheme, id) == [scheme |-> scheme, id |-> id, title |-> <<>>, year |-> 0]
TitleKey(title, year) == [scheme |-> "title", id |-> 0, title |-> title, year |-> year]

\* a key that never looks at the external identifier
movieKeyTitleOnly(movie) == TitleKey(toLowerCase(movie.title), movie.year)

\* movie.tmdbId ? `tmdb-${movie.tmdbId}` : `title-${lower}-${movie.year}`
movieKey(movie) ==
    IF movie.extId # 0 THEN IdKey("tmdb", movie.extId)
    ELSE TitleKey(toLowerCase(movie.title), movie.year)

\* series.tvdbId ? `tvdb-${series.tvdbId}` : `title-${lower}-${series.year}`
seriesKey(series) ==
    IF series.extId # 0 THEN IdKey("tvdb", series.extId)
    ELSE TitleKey(toLowerCase(series.title), series.year)

\* movie.sizeOnDisk
movieSize(movie) == movie.sizeOnDisk

\* series.statistics?.sizeOnDisk || 0
seriesSize(series) ==
    IF series.sizeOnDisk = NoStatistics THEN 0 ELSE series.sizeOnDisk

\* one pass of the grouping loop: byKey after the entry e = [item, instance]
\* was added under key k with size sz; byKey is kept in insertion order
AddEntry(byKey, k, e, sz) ==
    LET entry == [instanceId |-> e.instance, sizeOnDisk |-> sz, itemId |-> e.item.id]
    IN IF \E i \in 1 .. Len(byKey) : byKey[i].key = k
       THEN [i \in 1 .. Len(byKey) |->
                IF byKey[i].key = k
                THEN [byKey[i] EXCEPT !.instances = Append(@, entry),
                                      !.totalSize = @ + sz]
                ELSE byKey[i]]
       ELSE Append(byKey,
                [key |-> k, title |-> e.item.title, year |-> e.item.year,
                 externalId |-> e.item.extId, instances |-> <<entry>>,
                 totalSize |-> sz])

RECURSIVE GroupMovies(_, _)
GroupMovies(data, byKey) ==
    IF data = <<>> THEN byKey
    ELSE GroupMovies(Tail(data),
            AddEntry(byKey, movieKey(data[1].item), data[1], movieSize(data[1].item)))

RECURSIVE GroupSeries(_, _)
GroupSeries(data, byKey) ==
    IF data = <<>> THEN byKey
    ELSE GroupSeries(Tail(data),
            AddEntry(byKey, seriesKey(data[1].item), data[1], seriesSize(data[1].item)))

\* .filter((item) => item.instances.length >= 2)
RECURSIVE FilterTwoPlus(_)
FilterTwoPlus(groups) ==
    IF groups = <<>> THEN <<>>
    ELSE (IF Len(groups[1].instances) >= 2 THEN <<groups[1]>> ELSE <<>>)
         \o FilterTwoPlus(Tail(groups))

\* .sort((a, b) => b.totalSize - a.totalSize): stable, largest first
RECURSIVE InsertBySize(_, _)
InsertBySize(sorted, g) ==
    IF sorted = <<>> THEN <<g>>
    ELSE IF sorted[Len(sorted)].totalSize >= g.totalSize THEN Append(sorted, g)
    ELSE Append(InsertBySize(SubSeq(sorted, 1, Len(sorted) - 1), g),
                sorted[Len(sorted)])

RECURSIVE SortBySizeDesc(_, _)
SortBySizeDesc(groups, sorted) ==
    IF groups = <<>> THEN sorted
    ELSE SortBySizeDesc(Tail(groups), InsertBySize(sorted, groups[1]))

\* the useMemo bodies
movieDuplicates(data) == SortBySizeDesc(FilterTwoPlus(GroupMovies(data, <<>>)), <<>>)
seriesDuplicates(data) == SortBySizeDesc(FilterTwoPlus(GroupSeries(data, <<>>)), <<>>)

\* the items of one instance as the loop pushes them: { movie, instance }
Tagged(catalog, instance) ==
    [i \in 1 .. Len(catalog) |->
        [item |-> [extId |-> catalog[i].extId, title |-> catalog[i].title,
                   year |-> catalog[i].year, sizeOnDisk |-> catalog[i].sizeOnDisk,
                   id |-> i],
         instance |-> instance]]

\* radarrQuery / sonarrQuery queryFn: one iteration of the loop over the
\* instances; a failed fetch is caught and the instance contributes nothing
DupFetchNext ==
    /\ dup.phase = "fetching"
    /\ dup.idx <= Len(DupInstances)
    /\ \E ok \in BOOLEAN :
          dup' = [dup EXCEPT
                    !.idx = @ + 1,
                    !.failed = IF ok THEN @ ELSE @ \cup {DupInstances[dup.idx]},
                    !.data = IF ok
                             THEN @ \o Tagged(dup.catalogs[dup.idx],
                                              DupInstances[dup.idx])
                             ELSE @]
    /\ UNCHANGED <<instances, nextId, req, res, outbound, view, settings>>

\* the query resolves with allMovies / allSeries and the memo computes the report
DupRender ==
    /\ dup.phase = "fetching"
    /\ dup.idx > Len(DupInstances)
    /\ dup' = [dup EXCEPT
                 !.phase = "shown",
                 !.report = IF dup.kind = "movies" THEN movieDuplicates(dup.data)
                            ELSE seriesDuplicates(dup.data)]
    /\ UNCHANGED <<instances, nextId, req, res, outbound, view, settings>>

---------------------------------------------------------------------------
(* client/pages/Compare: the library comparison                            *)

\* the characters [a-z0-9] of the titles in use
Alnum == {"a", "b", "0", "1", "2", "3", "4", "5", "6", "7", "8", "9"}

\* title.toLowerCase().replace(/[^a-z0-9]/g, '')
IsAlnum(c) == c \in Alnum
normalize(title) == SelectSeq(toLowerCase(title), IsAlnum)

\* String(n) for a non-negative integer, as the sequence of its digits
DigitChar(d) ==
    CASE d = 0 -> "0" [] d = 1 -> "1" [] d = 2 -> "2" [] d = 3 -> "3"
      [] d = 4 -> "4" [] d = 5 -> "5" [] d = 6 -> "6" [] d = 7 -> "7"
      [] d = 8 -> "8" [] OTHER -> "9"

RECURSIVE Decimal(_)
Decimal(n) ==
    IF n < 10 THEN <<DigitChar(n)>>
    ELSE Append(Decimal(n \div 10), DigitChar(n % 10))

NoYear == 0                     \* a Plex item without a year (undefined)

\* normalize(item.title) + (item.year || '')
plexItemKey(item) ==
    normalize(item.title) \o (IF item.year = NoYear THEN <<>> ELSE Decimal(item.year))

\* normalize(item.title) + item.year
arrItemKey(item) == normalize(item.title) \o Decimal(item.year)

\* Map.prototype.set on a map kept as the sequence of its entries in insertion
\* order: a key already present keeps its place and gets the new value
MapSet(map, k, v) ==
    IF \E i \in 1 .. Len(map) : map[i].key = k
    THEN [i \in 1 .. Len(map) |-> IF map[i].key = k THEN [key |-> k, value |-> v]
                                   ELSE map[i]]
    ELSE Append(map, [key |-> k, value |-> v])

MapHas(map, k) == \E i \in 1 .. Len(map) : map[i].key = k
MapGet(map, k) == map[CHOOSE i \in 1 .. Len(map) : map[i].key = k].value
MapKeys(map) == [i \in 1 .. Len(map) |-> map[i].key]

\* for (const item of plexItems) plexTitles.set(key, item)
RECURSIVE plexTitles(_, _)
plexTitles(items, map) ==
    IF items = <<>> THEN map
    ELSE plexTitles(Tail(items), MapSet(map, plexItemKey(items[1]), items[1]))

\* for (const item of arrItems) arrTitles.set(key, item)
RECURSIVE arrTitles(_, _)
arrTitles(items, map) ==
    IF items = <<>> THEN map
    ELSE arrTitles(Tail(items), MapSet(map, arrItemKey(items[1]), items[1]))

\* new Set([...plexTitles.keys(), ...arrTitles.keys()]) in iteration order
RECURSIVE AddKeys(_, _)
AddKeys(keys, more) ==
    IF more = <<>> THEN keys
    ELSE AddKeys(IF \E i \in 1 .. Len(keys) : keys[i] = more[1] THEN keys
                 ELSE Append(keys, more[1]),
                 Tail(more))

\* the keys of the Plex map alone
allKeysOfPlex(pm, am) == AddKeys(<<>>, MapKeys(pm))

allKeys(pm, am) == AddKeys(AddKeys(<<>>, MapKeys(pm)), MapKeys(am))

Undefined == 0                  \* undefined (plexKey, arrId, arrInstanceId); ids are positive

\* the row pushed for one key
CompareRow(key, pm, am, mediaType) ==
    LET inPlex == MapHas(pm, key)
        inArr == MapHas(am, key)
    IN [title |-> IF inPlex /\ MapGet(pm, key).title # <<>> THEN MapGet(pm, key).title
                  ELSE IF inArr THEN MapGet(am, key).title ELSE <<>>,
        year |-> IF inPlex /\ MapGet(pm, key).year # NoYear THEN MapGet(pm, key).year
                 ELSE IF inArr THEN MapGet(am, key).year ELSE NoYear,
        inPlex |-> inPlex,
        inArr |-> inArr,
        type |-> IF mediaType = "movies" THEN "movie" ELSE "series",
        plexKey |-> IF inPlex THEN MapGet(pm, key).ratingKey ELSE Undefined,
        arrId |-> IF inArr THEN MapGet(am, key).id ELSE Undefined,
        arrInstanceId |-> IF inArr THEN MapGet(am, key).instanceId ELSE Undefined]

\* for (const key of allKeys) results.push({...})
CompareRows(keys, pm, am, mediaType) ==
    [i \in 1 .. Len(keys) |-> CompareRow(keys[i], pm, am, mediaType)]

\* the titles on display and String.prototype.localeCompare over them: in the
\* default collation 'A-b' < 'ab' < 'ab1999' (punctuation sorts before
\* letters, a prefix before its extensions)
CmpTitles == {<<"a", "b">>, <<"A", "-", "b">>, <<"a", "b", "1", "9", "9", "9">>}

CollationRank(t) ==
    CASE t = <<"A", "-", "b">> -> 1
      [] t = <<"a", "b">> -> 2
      [] t = <<"a", "b", "1", "9", "9", "9">> -> 3
      [] OTHER -> 0

localeCompare(a, b) ==
    IF CollationRank(a) < CollationRank(b) THEN -1
    ELSE IF CollationRank(a) > CollationRank(b) THEN 1 ELSE 0

\* the rows the comparison mode puts first
OnlyPlex(r) == r.inPlex /\ ~r.inArr
OnlyArr(r) == r.inArr /\ ~r.inPlex
SortsFirst(r, compareMode) ==
    IF compareMode = "plex-vs-arr" THEN OnlyPlex(r) ELSE OnlyArr(r)

\* a comparator that never looks at the comparison mode
compareRowsByTitle(a, b, compareMode) == localeCompare(a.title, b.title)

\* the comparator handed to results.sort
compareRows(a, b, compareMode) ==
    IF SortsFirst(a, compareMode) /\ ~SortsFirst(b, compareMode) THEN -1
    ELSE IF SortsFirst(b, compareMode) /\ ~SortsFirst(a, compareMode) THEN 1
    ELSE localeCompare(a.title, b.title)

\* Array.prototype.sort: stable
RECURSIVE InsertRow(_, _, _)
InsertRow(sorted, r, compareMode) ==
    IF sorted = <<>> THEN <<r>>
    ELSE IF compareRows(sorted[Len(sorted)], r, compareMode) <= 0 THEN Append(sorted, r)
    ELSE Append(InsertRow(SubSeq(sorted, 1, Len(sorted) - 1), r, compareMode),
                sorted[Len(sorted)])

RECURSIVE SortRows(_, _, _)
SortRows(rows, sorted, compareMode) ==
    IF rows = <<>> THEN sorted
    ELSE SortRows(Tail(rows), InsertRow(sorted, rows[1], compareMode), compareMode)

\* the comparison memo
comparison(plexItems, arrItems, compareMode, mediaType) ==
    LET pm == plexTitles(plexItems, <<>>)
        am == arrTitles(arrItems, <<>>)
    IN SortRows(CompareRows(allKeys(pm, am), pm, am, mediaType), <<>>, compareMode)

\* the stats memo
CountRows(rows, P(_)) == Cardinality({i \in 1 .. Len(rows) : P(rows[i])})
InBoth(r) == r.inPlex /\ r.inArr
stats(rows) ==
    [inBoth |-> CountRows(rows, InBoth),
     onlyPlex |-> CountRows(rows, OnlyPlex),
     onlyArr |-> CountRows(rows, OnlyArr)]

CompareModes == {"plex-vs-arr", "arr-vs-plex"}
MediaTypes == {"movies", "series"}

MaxRows == 2                    \* items each side's query returns

\* what plexQuery.data and arrQuery.data can hold
PlexYears == {NoYear, 1999, 2003}
PlexShapes == {[title |-> t, year |-> y] : t \in CmpTitles, y \in PlexYears}
ArrShapes == {[title |-> t, year |-> y] : t \in CmpTitles, y \in Years}

PlexData(shapes) ==
    [i \in 1 .. Len(shapes) |->
        [title |-> shapes[i].title, year |-> shapes[i].year, ratingKey |-> i]]

ArrData(shapes) ==
    [i \in 1 .. Len(shapes) |->
        [title |-> shapes[i].title, year |-> shapes[i].year, id |-> i,
         instanceId |-> 1, hasFile |-> TRUE]]

SeqsUpTo(S, n) == UNION {[1 .. k -> S] : k \in 0 .. n}

\* the memos run for the data the two queries hold
Memoized(v) ==
    LET rows == comparison(v.plexData, v.arrData, v.compareMode, v.mediaType)
    IN [v EXCEPT !.phase = "memo", !.comparison = rows, !.stats = stats(rows)]

RenderComparison ==
    /\ view.page = "comparison"
    /\ view.phase = "data"
    /\ view' = Memoized(view)
    /\ UNCHANGED <<instances, nextId, req, res, outbound, dup, settings>>

\* onClick={() => setCompareMode(mode)}
setCompareMode(mode) ==
    /\ view.page = "comparison"
    /\ view.phase = "memo"
    /\ view' = Memoized([view EXCEPT !.compareMode = mode])
    /\ UNCHANGED <<instances, nextId, req, res, outbound, dup, settings>>

---------------------------------------------------------------------------
(* client/pages/Compare: the queries behind the two sides                  *)

\* the instance lists GET /instances/type/:type answers with
ComparePlex == <<1, 2>>
CompareRadarr == <<3, 4>>
CompareSonarr == <<5>>

\* libResponse.data.MediaContainer.Directory of each Plex instance
Directory(instance) ==
    IF instance = 1
    THEN <<[key |-> 1, type |-> "movie"], [key |-> 2, type |-> "movie"],
           [key |-> 3, type |-> "show"]>>
    ELSE <<[key |-> 1, type |-> "movie"], [key |-> 2, type |-> "show"]>>

\* contentResponse.data.MediaContainer.Metadata of each library
Metadata(instance, key) ==
    <<[title |-> IF key = 1 THEN <<"a", "b">> ELSE <<"A", "-", "b">>,
       year |-> IF instance = 1 THEN 1999 ELSE 2003,
       ratingKey |-> 10 * instance + key]>>

\* the sub-library keys `${instance._id}:${l.key}` a setting can list
LibraryKeys == {<<1, 1>>, <<1, 2>>, <<2, 1>>}

NoEpisodes == -1                \* a series without a statistics object

\* what an automation instance can return (movie: hasFile; series:
\* statistics.episodeFileCount)
ArrCatalogs ==
    {<<>>,
     <<[id |-> 1, title |-> <<"a", "b">>, year |-> 1999, hasFile |-> TRUE,
        episodeFileCount |-> 2]>>,
     <<[id |-> 1, title |-> <<"a", "b">>, year |-> 2003, hasFile |-> FALSE,
        episodeFileCount |-> 0],
       [id |-> 2, title |-> <<"A", "-", "b">>, year |-> 1999, hasFile |-> TRUE,
        episodeFileCount |-> NoEpisodes]>>}

Pending == [status |-> "pending", data |-> <<>>, failed |-> {}]

\* libraries.filter(...): not excluded and of the target type
RECURSIVE targetLibraries(_, _, _, _)
targetLibraries(libraries, instance, excluded, mediaType) ==
    IF libraries = <<>> THEN <<>>
    ELSE (IF /\ <<instance, libraries[1].key>> \notin excluded
             /\ libraries[1].type = (IF mediaType = "movies" THEN "movie" ELSE "show")
          THEN <<libraries[1]>> ELSE <<>>)
         \o targetLibraries(Tail(libraries), instance, excluded, mediaType)

\* the items pushed for the first n target libraries
RECURSIVE PushedContent(_, _, _)
PushedContent(instance, libs, n) ==
    IF n = 0 \/ libs = <<>> THEN <<>>
    ELSE Metadata(instance, libs[1].key) \o PushedContent(instance, Tail(libs), n - 1)

\* one iteration of the loop over plexInstances. The requests are the library
\* listing and one content request per target library; failAt = 0 when all
\* succeed, else the number of the request that rejects: the catch ends the
\* iteration and what was pushed before stays
PlexInstanceItems(instance, excluded, mediaType, failAt) ==
    LET libs == targetLibraries(Directory(instance), instance, excluded, mediaType)
    IN IF failAt = 0 THEN PushedContent(instance, libs, Len(libs))
       ELSE IF failAt = 1 THEN <<>>
       ELSE PushedContent(instance, libs, failAt - 2)

PlexRequests(instance, excluded, mediaType) ==
    1 + Len(targetLibraries(Directory(instance), instance, excluded, mediaType))

RECURSIVE PlexItems(_, _, _, _)
PlexItems(list, excluded, mediaType, failAt) ==
    IF list = <<>> THEN <<>>
    ELSE PlexInstanceItems(list[1], excluded, mediaType, failAt[list[1]])
         \o PlexItems(Tail(list), excluded, mediaType, failAt)

\* the per-instance failure choices: which request of each instance rejects
PlexFailures(list, excluded, mediaType) ==
    {f \in [{list[i] : i \in 1 .. Len(list)} -> 0 .. 3] :
        \A i \in DOMAIN f : f[i] <= PlexRequests(i, excluded, mediaType)}

\* m.hasFile / (s.statistics?.episodeFileCount || 0) > 0
hasFiles(item, mediaType) ==
    IF mediaType = "movies" THEN item.hasFile
    ELSE (IF item.episodeFileCount = NoEpisodes THEN 0 ELSE item.episodeFileCount) > 0

\* the items pushed for one automation instance
RECURSIVE ArrInstanceItems(_, _, _)
ArrInstanceItems(catalog, instance, mediaType) ==
    IF catalog = <<>> THEN <<>>
    ELSE (IF hasFiles(catalog[1], mediaType)
          THEN <<[title |-> catalog[1].title, year |-> catalog[1].year,
                  id |-> catalog[1].id, instanceId |-> instance, hasFile |-> TRUE]>>
          ELSE <<>>)
         \o ArrInstanceItems(Tail(catalog), instance, mediaType)

RECURSIVE ArrItems(_, _, _)
ArrItems(list, catalogs, mediaType) ==
    IF list = <<>> THEN <<>>
    ELSE ArrInstanceItems(catalogs[list[1]], list[1], mediaType)
         \o ArrItems(Tail(list), catalogs, mediaType)

\* the instance list the arr query iterates over
ArrList(v) == IF v.mediaType = "movies" THEN CompareRadarr ELSE CompareSonarr

SeqToSet(q) == {q[i] : i \in 1 .. Len(q)}

\* enabled: !!plexInstances && plexInstances.length > 0
plexQueryEnabled(v) == v.loaded["plex"] /\ Len(ComparePlex) > 0

\* enabled: (movies && !!radarrInstances) || (series && !!sonarrInstances)
arrQueryEnabled(v) ==
    \/ v.mediaType = "movies" /\ v.loaded["radarr"]
    \/ v.mediaType = "series" /\ v.loaded["sonarr"]

\* an instance-list query resolves; the arr query's key holds both lists, so
\* it starts over when either arrives
LoadInstances(type) ==
    /\ view.page = "compare"
    /\ ~view.loaded[type]
    /\ view' = [view EXCEPT !.loaded[type] = TRUE,
                             !.arrQuery = IF type = "plex" THEN @ ELSE Pending,
                             !.plexQuery = IF type = "plex" THEN Pending ELSE @]
    /\ UNCHANGED <<instances, nextId, req, res, outbound, dup, settings>>

\* the excluded-libraries query resolves; it is part of the Plex query's key
LoadExcluded ==
    /\ view.page = "compare"
    /\ ~view.excludedLoaded
    /\ view' = [view EXCEPT !.excludedLoaded = TRUE,
                             !.excludedLibraries = view.stored,
                             !.plexQuery = Pending]
    /\ UNCHANGED <<instances, nextId, req, res, outbound, dup, settings>>

\* plexQuery's queryFn runs to its end for the current key
PlexQuerySettles ==
    /\ view.page = "compare"
    /\ plexQueryEnabled(view)
    /\ view.plexQuery.status = "pending"
    /\ LET excluded == IF view.excludedLoaded THEN view.excludedLibraries ELSE {}
       IN \E f \in PlexFailures(ComparePlex, excluded, view.mediaType) :
             view' = [view EXCEPT !.plexQuery =
                        [status |-> "success",
                         data |-> PlexItems(ComparePlex, excluded, view.mediaType, f),
                         failed |-> {i \in DOMAIN f : f[i] # 0}]]
    /\ UNCHANGED <<instances, nextId, req, res, outbound, dup, settings>>

\* arrQuery's queryFn runs to its end for the current key: the first fetch
\* that rejects rejects the query
ArrQuerySettles ==
    /\ view.page = "compare"
    /\ arrQueryEnabled(view)
    /\ view.arrQuery.status = "pending"
    /\ \E failed \in SUBSET SeqToSet(ArrList(view)) :
          view' = [view EXCEPT !.arrQuery =
                     IF failed = {}
                     THEN [status |-> "success",
                           data |-> ArrItems(ArrList(view), view.catalogs, view.mediaType),
                           failed |-> {}]
                     ELSE [status |-> "error", data |-> <<>>, failed |-> failed]]
    /\ UNCHANGED <<instances, nextId, req, res, outbound, dup, settings>>

---------------------------------------------------------------------------
(* client/pages/CutoffUnmet: the movies below their quality cutoff         *)

MaxRecords == 2                 \* records of one instance's below-cutoff list

CutoffRadarr == <<1, 2>>        \* the instance list the page iterates over
MovieIds == {1, 2}              \* movie ids, per instance
QualityNames == {"HD-1080p", "SD"}
Unknown == "Unknown"

\* a movie of an instance: not there, there without movieFile quality name,
\* or there with one
MovieStates == {"absent", "nofile"} \cup QualityNames

\* getRadarrMovies(instance._id): the movies in id order
RECURSIVE MovieList(_, _)
MovieList(byId, id) ==
    IF id \notin MovieIds THEN <<>>
    ELSE (IF byId[id] = "absent" THEN <<>> ELSE <<[id |-> id, quality |-> byId[id]]>>)
         \o MovieList(byId, id + 1)

\* a lookup built from the movies of every instance
movieQualityMapOfAll(instance) ==
    LET Build[n \in 0 .. Len(CutoffRadarr)] ==
            IF n = 0 THEN <<>>
            ELSE LET movies == MovieList(view.movies[CutoffRadarr[n]], 1)
                     Add[k \in 0 .. Len(movies)] ==
                         IF k = 0 THEN Build[n - 1]
                         ELSE IF movies[k].quality \in QualityNames
                              THEN MapSet(Add[k - 1], movies[k].id, movies[k].quality)
                              ELSE Add[k - 1]
                 IN Add[Len(movies)]
    IN Build[Len(CutoffRadarr)]

\* movieQualityMap: movie.id -> movie.movieFile.quality.quality.name, over the
\* movies of the instance at hand that have such a name
movieQualityMap(instance) ==
    LET movies == MovieList(view.movies[instance], 1)
        Add[k \in 0 .. Len(movies)] ==
            IF k = 0 THEN <<>>
            ELSE IF movies[k].quality \in QualityNames
                 THEN MapSet(Add[k - 1], movies[k].id, movies[k].quality)
                 ELSE Add[k - 1]
    IN Add[Len(movies)]

\* the items pushed for the records of one instance
CutoffItems(instance) ==
    LET records == view.records[instance]
        qualities == movieQualityMap(instance)
    IN [n \in 1 .. Len(records) |->
          [id |-> <<"radarr", instance, records[n]>>,
           currentQuality |-> IF MapHas(qualities, records[n])
                              THEN MapGet(qualities, records[n]) ELSE Unknown,
           instanceId |-> instance,
           type |-> "movie"]]

\* radarrQuery queryFn: one iteration of the loop over the instances; when
\* either request of the Promise.all rejects the catch skips the instance
CutoffFetchNext ==
    /\ view.page = "cutoff"
    /\ view.phase = "fetching"
    /\ view.idx <= Len(CutoffRadarr)
    /\ \E ok \in BOOLEAN :
          view' = [view EXCEPT
                     !.idx = @ + 1,
                     !.failed = IF ok THEN @ ELSE @ \cup {CutoffRadarr[view.idx]},
                     !.data = IF ok THEN @ \o CutoffItems(CutoffRadarr[view.idx]) ELSE @]
    /\ UNCHANGED <<instances, nextId, req, res, outbound, dup, settings>>

\* the query resolves with the items; mediaType is 'movies'
CutoffRender ==
    /\ view.page = "cutoff"
    /\ view.phase = "fetching"
    /\ view.idx > Len(CutoffRadarr)
    /\ view' = [view EXCEPT !.phase = "shown", !.items = view.data]
    /\ UNCHANGED <<instances, nextId, req, res, outbound, dup, settings>>

---------------------------------------------------------------------------
(* client/components/BulkActions and BulkPathEditModal, as RadarrMedia      *)
(* mounts them (SonarrMedia does the same with series)                      *)

MaxSelected == 2                \* items selected for a bulk action

Dirs == {"a", "b"}              \* the parent directories in use
NoError == "null"               \* the modal's error state when null
NoDestination == <<>>           \* the modal's selectedDestination when ''
ProfileIds == {1, 2}            \* the quality profiles of the instance

\* the folder an item's files live in, and a path as its parts
MediaFolder(id) == IF id = 1 THEN "x" ELSE "y"
PathOf(dir, id) == <<dir, MediaFolder(id)>>

\* getShortPath: the path without its last part (the whole path when it has
\* at most one part)
getShortPath(fullPath) ==
    IF Len(fullPath) <= 1 THEN fullPath ELSE SubSeq(fullPath, 1, Len(fullPath) - 1)

\* getMediaFolder: the last part, '' when there is none
getMediaFolder(fullPath) ==
    IF Len(fullPath) > 0 THEN <<fullPath[Len(fullPath)]>> ELSE <<>>

NoJob == [kind |-> "none", arg |-> 0, idx |-> 0, items |-> <<>>]

\* the body a PUT carries: the item as the list holds it, one field replaced
WithMonitored(item, monitored) == [item EXCEPT !.monitored = monitored]
WithQuality(item, qualityProfileId) == [item EXCEPT !.qualityProfileId = qualityProfileId]

\* the upstream server handling PUT /movie/:id: the stored item becomes the body
PutMovie(upstream, body) ==
    [upstream EXCEPT ![body.id] = [exists |-> TRUE, monitored |-> body.monitored,
                                   qualityProfileId |-> body.qualityProfileId,
                                   path |-> body.path]]

\* the upstream server handling DELETE /movie/:id
DeleteMovie(upstream, id) == [upstream EXCEPT ![id].exists = FALSE]

\* handleSetMonitored, handleChangeQuality and handleDelete up to their first
\* await: setIsProcessing(true) and the loop starts over the selectedItems
\* the handler was created with. The bar is out of reach while the modal's
\* full-screen layer is shown.
StartJob(kind, arg) ==
    /\ view.page = "bulk"
    /\ view.selectedItems # <<>>
    /\ ~view.showBulkMove
    /\ ~view.isProcessing
    /\ view' = [view EXCEPT !.isProcessing = TRUE,
                             !.job = [kind |-> kind, arg |-> arg, idx |-> 1,
                                      items |-> view.selectedItems],
                             !.calls = <<>>]
    /\ UNCHANGED <<instances, nextId, req, res, outbound, dup, settings>>

handleSetMonitored(monitored) == StartJob("monitored", IF monitored THEN 1 ELSE 0)

\* if (!qualityProfileId) return
handleChangeQuality(qualityProfileId) ==
    /\ qualityProfileId # 0
    /\ StartJob("quality", qualityProfileId)

\* onClick={() => setShowDeleteConfirm(true / false)}
setShowDeleteConfirm(show) ==
    /\ view.page = "bulk"
    /\ view.selectedItems # <<>>
    /\ ~view.showBulkMove
    /\ ~view.isProcessing
    /\ view.showDeleteConfirm # show
    /\ view' = [view EXCEPT !.showDeleteConfirm = show]
    /\ UNCHANGED <<instances, nextId, req, res, outbound, dup, settings>>

\* the Confirm button
handleDelete ==
    /\ view.page = "bulk"
    /\ view.showDeleteConfirm
    /\ StartJob("delete", 0)

\* the call the loop issues for the item at hand
JobCall(job, item) ==
    CASE job.kind = "monitored" ->
            [op |-> "PUT", id |-> item.id, body |-> WithMonitored(item, job.arg = 1)]
      [] job.kind = "quality" ->
            [op |-> "PUT", id |-> item.id, body |-> WithQuality(item, job.arg)]
      [] OTHER ->
            [op |-> "DELETE", id |-> item.id, body |-> item]

\* the upstream effect of a call that succeeds
Effect(upstream, call) ==
    IF call.op = "PUT" THEN PutMovie(upstream, call.body)
    ELSE DeleteMovie(upstream, call.id)

\* console.error(...) of the three handlers
NoLog == "none"
JobErrorLog(kind) ==
    CASE kind = "monitored" -> "Failed to update monitored status:"
      [] kind = "quality" -> "Failed to update quality profile:"
      [] OTHER -> "Failed to delete items:"

\* a loop that issues the next call without awaiting the one before
JobCallIssuedUnawaited ==
    /\ view.page = "bulk"
    /\ view.isProcessing
    /\ Len(view.calls) < Len(view.job.items)
    /\ view' = [view EXCEPT
                  !.calls = Append(@, [id |-> view.job.items[Len(view.calls) + 1].id,
                                       state |-> "pending"])]
    /\ UNCHANGED <<instances, nextId, req, res, outbound, dup, settings>>

\* one iteration of the loop, first half: the call for the item at hand is
\* issued and awaited
JobCallIssued ==
    /\ view.page = "bulk"
    /\ view.isProcessing
    /\ view.job.idx <= Len(view.job.items)
    /\ \A k \in 1 .. Len(view.calls) : view.calls[k].state # "pending"
    /\ view' = [view EXCEPT
                  !.calls = Append(@, [id |-> view.job.items[view.job.idx].id,
                                       state |-> "pending"])]
    /\ UNCHANGED <<instances, nextId, req, res, outbound, dup, settings>>

\* a loop that goes on to the next item after a rejection
JobCallSettlesAndGoesOn ==
    /\ view.page = "bulk"
    /\ view.isProcessing
    /\ view.calls # <<>>
    /\ view.calls[Len(view.calls)].state = "pending"
    /\ LET call == JobCall(view.job, view.job.items[view.job.idx])
       IN \E ok \in {b \in BOOLEAN : b => view.upstream[call.id].exists} :
             view' = IF ok
                     THEN [view EXCEPT !.upstream = Effect(@, call),
                                       !.calls[Len(view.calls)].state = "ok",
                                       !.job.idx = @ + 1]
                     ELSE [view EXCEPT !.calls[Len(view.calls)].state = "failed",
                                       !.console = JobErrorLog(view.job.kind),
                                       !.job.idx = @ + 1]
    /\ UNCHANGED <<instances, nextId, req, res, outbound, dup, settings>>

\* one iteration of the loop, second half: the awaited call resolves, or it
\* rejects and the catch logs to the console, then finally runs
JobCallSettles ==
    /\ view.page = "bulk"
    /\ view.isProcessing
    /\ view.calls # <<>>
    /\ view.calls[Len(view.calls)].state = "pending"
    /\ LET call == JobCall(view.job, view.job.items[view.job.idx])
       IN \E ok \in {b \in BOOLEAN : b => view.upstream[call.id].exists} :
             view' = IF ok
                     THEN [view EXCEPT !.upstream = Effect(@, call),
                                       !.calls[Len(view.calls)].state = "ok",
                                       !.job.idx = @ + 1]
                     ELSE [view EXCEPT !.calls[Len(view.calls)].state = "failed",
                                       !.job = NoJob,
                                       !.console = JobErrorLog(view.job.kind),
                                       !.isProcessing = FALSE,
                                       !.showDeleteConfirm =
                                           IF view.job.kind = "delete" THEN FALSE ELSE @]
    /\ UNCHANGED <<instances, nextId, req, res, outbound, dup, settings>>

\* the loop is over: invalidateQueries(), onComplete() (the page clears the
\* selection), then finally
JobDone ==
    /\ view.page = "bulk"
    /\ view.isProcessing
    /\ view.job.idx > Len(view.job.items)
    /\ view' = [view EXCEPT !.job = NoJob,
                             !.calls = <<>>,
                             !.isProcessing = FALSE,
                             !.showDeleteConfirm = FALSE,
                             !.selectedItems = <<>>]
    /\ UNCHANGED <<instances, nextId, req, res, outbound, dup, settings>>

\* the Move button of BulkActions: setShowBulkMove(true); the modal's effect
\* on isOpen resets its state
onMoveClick ==
    /\ view.page = "bulk"
    /\ view.selectedItems # <<>>
    /\ ~view.isProcessing
    /\ ~view.showBulkMove
    /\ view' = [view EXCEPT !.showBulkMove = TRUE,
                             !.selectedDestination = NoDestination,
                             !.error = NoError,
                             !.isMoving = FALSE]
    /\ UNCHANGED <<instances, nextId, req, res, outbound, dup, settings>>

\* onClose: the X button and the backdrop always, Cancel unless isMoving
onClose ==
    /\ view.page = "bulk"
    /\ view.showBulkMove
    /\ view' = [view EXCEPT !.showBulkMove = FALSE]
    /\ UNCHANGED <<instances, nextId, req, res, outbound, dup, settings>>

\* allShortPaths: the parent directories of the paths in the list
allShortPaths == {<<d>> : d \in Dirs}

setSelectedDestination(dest) ==
    /\ view.page = "bulk"
    /\ view.showBulkMove
    /\ view.selectedDestination # dest
    /\ view' = [view EXCEPT !.selectedDestination = dest]
    /\ UNCHANGED <<instances, nextId, req, res, outbound, dup, settings>>

\* selectedItems.filter((item) => getShortPath(item.path) !== selectedDestination)
itemsToMove(v) ==
    SelectSeq(v.selectedItems, LAMBDA item : getShortPath(item.path) # v.selectedDestination)

NoMovie == [id |-> 0, monitored |-> FALSE, qualityProfileId |-> 0, path |-> <<>>]
Idle == [step |-> "idle", newPath |-> <<>>, body |-> NoMovie]

\* no per-item call of a move batch is in flight
MovesSettled(v) == \A id \in DOMAIN v.moves : v.moves[id].step \notin {"get", "put"}

\* handleMove behind its button (disabled while isMoving, without a
\* destination or with nothing to move) and handleBulkMove up to its await:
\* every updateRadarrMoviePath is started, which issues its GET. A new batch
\* starts once the calls of the previous one have settled.
handleMove ==
    /\ view.page = "bulk"
    /\ view.showBulkMove
    /\ ~view.isMoving
    /\ view.selectedDestination # NoDestination
    /\ itemsToMove(view) # <<>>
    /\ MovesSettled(view)
    /\ LET list == itemsToMove(view)
           ids == {list[i].id : i \in 1 .. Len(list)}
           snapshot(id) == list[CHOOSE i \in 1 .. Len(list) : list[i].id = id]
       IN view' = [view EXCEPT
                     !.isMoving = TRUE,
                     !.error = NoError,
                     !.batch = "pending",
                     !.moves = [id \in DOMAIN view.moves |->
                                   IF id \in ids
                                   THEN [step |-> "get",
                                         newPath |-> view.selectedDestination
                                                     \o getMediaFolder(snapshot(id).path),
                                         body |-> NoMovie]
                                   ELSE Idle]]
    /\ UNCHANGED <<instances, nextId, req, res, outbound, dup, settings>>

\* Promise.all rejects on the first rejection: handleMove's catch
BatchRejected(v) ==
    IF v.batch = "pending"
    THEN [v EXCEPT !.batch = "rejected",
                   !.console = "Bulk move failed:",
                   !.error = "Some moves failed. Check the Activity indicator for details.",
                   !.isMoving = FALSE]
    ELSE v

\* Promise.all resolves when the last call does: invalidateQueries,
\* setSelectedIds(new Set()), then handleMove's onClose()
BatchResolved(v) ==
    IF v.batch = "pending" /\ \A id \in DOMAIN v.moves : v.moves[id].step \in {"idle", "done"}
    THEN [v EXCEPT !.batch = "resolved", !.selectedItems = <<>>, !.showBulkMove = FALSE]
    ELSE v

\* updateRadarrMoviePath: the GET of the current movie settles; on success the
\* PUT of that movie with the new path is issued
MoveGetSettles(id) ==
    /\ view.page = "bulk"
    /\ view.moves[id].step = "get"
    /\ LET movie == [id |-> id, monitored |-> view.upstream[id].monitored,
                     qualityProfileId |-> view.upstream[id].qualityProfileId,
                     path |-> view.moves[id].newPath]
       IN \E ok \in {b \in BOOLEAN : b => view.upstream[id].exists} :
             view' = IF ok
                     THEN [view EXCEPT
                             !.moves[id].step = "put",
                             !.moves[id].body = movie]
                     ELSE BatchRejected([view EXCEPT !.moves[id].step = "failed"])
    /\ UNCHANGED <<instances, nextId, req, res, outbound, dup, settings>>

\* the PUT settles
MovePutSettles(id) ==
    /\ view.page = "bulk"
    /\ view.moves[id].step = "put"
    /\ \E ok \in {b \in BOOLEAN : b => view.upstream[id].exists} :
          view' = IF ok
                  THEN BatchResolved([view EXCEPT !.moves[id].step = "done",
                                                  !.upstream = PutMovie(@, view.moves[id].body)])
                  ELSE BatchRejected([view EXCEPT !.moves[id].step = "failed"])
    /\ UNCHANGED <<instances, nextId, req, res, outbound, dup, settings>>

---------------------------------------------------------------------------
(* client/pages/RadarrMedia: the filtered list and the selection (SonarrMedia *)
(* does the same with series)                                               *)

\* the movies the query has delivered: a downloaded one, a missing one and a
\* downloaded .iso in another directory
ListedMovies ==
    << [id |-> 1, title |-> <<"A", "b">>, hasFile |-> TRUE, iso |-> FALSE,
        path |-> <<"a", "x">>],
       [id |-> 2, title |-> <<"b">>, hasFile |-> FALSE, iso |-> FALSE,
        path |-> <<"a", "y">>],
       [id |-> 3, title |-> <<"a">>, hasFile |-> TRUE, iso |-> TRUE,
        path |-> <<"b", "z">>] >>

FilterModes == {"downloaded", "missing", "iso", "all"}
Searches == {<<>>, <<"a">>, <<"B">>}
PathFilters == {<<>>, <<"a">>, <<"b">>}

\* String.prototype.includes
includes(text, part) ==
    \E i \in 0 .. Len(text) - Len(part) : SubSeq(text, i + 1, i + Len(part)) = part

\* the filter callback of filteredMovies
Displayed(m, v) ==
    /\ includes(toLowerCase(m.title), toLowerCase(v.search))
    /\ ~(v.pathFilter # <<>> /\ getShortPath(m.path) # v.pathFilter)
    /\ ~(v.filterMode = "downloaded" /\ ~m.hasFile)
    /\ ~(v.filterMode = "missing" /\ m.hasFile)
    /\ ~(v.filterMode = "iso" /\ (~m.hasFile \/ ~m.iso))

\* filteredMovies, as the list of the ids (the order of the sort aside)
filteredMovies(v) == SelectSeq(v.movies, LAMBDA m : Displayed(m, v))

\* selectedMovies: movies.filter((m) => selectedIds.has(m.id))
selectedMovies(v) == SelectSeq(v.movies, LAMBDA m : m.id \in v.selectedIds)

\* the header checkbox
headerChecked(v) ==
    /\ Cardinality(v.selectedIds) = Len(filteredMovies(v))
    /\ Len(filteredMovies(v)) > 0

\* the checkbox of a displayed row
toggleSelect(id) ==
    /\ view.page = "list"
    /\ \E k \in 1 .. Len(filteredMovies(view)) : filteredMovies(view)[k].id = id
    /\ view' = [view EXCEPT !.selectedIds =
                                 IF id \in @ THEN @ \ {id} ELSE @ \cup {id}]
    /\ UNCHANGED <<instances, nextId, req, res, outbound, dup, settings>>

toggleSelectAll ==
    /\ view.page = "list"
    /\ view' = [view EXCEPT !.selectedIds =
                   IF Cardinality(@) = Len(filteredMovies(view)) THEN {}
                   ELSE {filteredMovies(view)[k].id : k \in 1 .. Len(filteredMovies(view))}]
    /\ UNCHANGED <<instances, nextId, req, res, outbound, dup, settings>>

setSearch(text) ==
    /\ view.page = "list"
    /\ view.search # text
    /\ view' = [view EXCEPT !.search = text]
    /\ UNCHANGED <<instances, nextId, req, res, outbound, dup, settings>>

setFilterMode(mode) ==
    /\ view.page = "list"
    /\ view.filterMode # mode
    /\ view' = [view EXCEPT !.filterMode = mode]
    /\ UNCHANGED <<instances, nextId, req, res, outbound, dup, settings>>

setPathFilter(path) ==
    /\ view.page = "list"
    /\ view.pathFilter # path
    /\ view' = [view EXCEPT !.pathFilter = path]
    /\ UNCHANGED <<instances, nextId, req, res, outbound, dup, settings>>

---------------------------------------------------------------------------
(* client/components/ActivityIndicator: the command poll                   *)

MaxCycles == 3                  \* poll cycles started while the component lives
MaxLists == 2                   \* instance lists the queries deliver

\* the status of the one move command upstream, in the order it goes through
CommandStatus == <<"queued", "started", "completed">>

\* what a cycle has collected: nothing yet, an empty list (the fetch failed
\* and was caught), or the command in the status the fetch saw
NotFetched == "not fetched"
NoCommands == "[]"

\* fetchCommands is called: by the effect itself and by every firing of the
\* interval the effect has set; the call closes over the effect's lists
StartCycle(v) ==
    [v EXCEPT !.cycles = Append(@, [list |-> v.list, allCommands |-> NotFetched,
                                    done |-> FALSE])]

\* an interval that skips a firing while a cycle is in flight
setIntervalFiresGuarded ==
    /\ view.page = "activity"
    /\ view.mounted
    /\ Len(view.cycles) < MaxCycles
    /\ \A n \in 1 .. Len(view.cycles) : view.cycles[n].done
    /\ view' = StartCycle(view)
    /\ UNCHANGED <<instances, nextId, req, res, outbound, dup, settings>>

\* setInterval(fetchCommands, 1000) fires
setIntervalFires ==
    /\ view.page = "activity"
    /\ view.mounted
    /\ Len(view.cycles) < MaxCycles
    /\ view' = StartCycle(view)
    /\ UNCHANGED <<instances, nextId, req, res, outbound, dup, settings>>

\* the instance queries deliver a new list: the effect's cleanup clears the
\* interval, the effect runs again, calls fetchCommands and sets a new interval
InstancesChange ==
    /\ view.page = "activity"
    /\ view.mounted
    /\ view.list < MaxLists
    /\ Len(view.cycles) < MaxCycles
    /\ view' = StartCycle([view EXCEPT !.list = @ + 1])
    /\ UNCHANGED <<instances, nextId, req, res, outbound, dup, settings>>

\* the component unmounts: the cleanup clears the interval
Unmount ==
    /\ view.page = "activity"
    /\ view.mounted
    /\ view' = [view EXCEPT !.mounted = FALSE]
    /\ UNCHANGED <<instances, nextId, req, res, outbound, dup, settings>>

\* the upstream command moves on
CommandAdvances ==
    /\ view.page = "activity"
    /\ view.status < Len(CommandStatus)
    /\ view' = [view EXCEPT !.status = @ + 1]
    /\ UNCHANGED <<instances, nextId, req, res, outbound, dup, settings>>

\* a cycle's GET .../command settles: the commands are pushed in the status
\* they have now, or the catch logs the error and nothing is pushed
CycleFetches(n) ==
    /\ view.page = "activity"
    /\ view.cycles[n].allCommands = NotFetched
    /\ \E ok \in BOOLEAN :
          view' = [view EXCEPT !.cycles[n].allCommands =
                                   IF ok THEN CommandStatus[view.status] ELSE NoCommands]
    /\ UNCHANGED <<instances, nextId, req, res, outbound, dup, settings>>

\* a cycle reaches its end: setRecentCommands(allCommands), which is without
\* effect once the component is unmounted
CycleEnds(n) ==
    /\ view.page = "activity"
    /\ view.cycles[n].allCommands # NotFetched
    /\ ~view.cycles[n].done
    /\ view' = [view EXCEPT !.cycles[n].done = TRUE,
                             !.recentCommands =
                                 IF view.mounted
                                 THEN [cycle |-> n, commands |-> view.cycles[n].allCommands]
                                 ELSE @]
    /\ UNCHANGED <<instances, nextId, req, res, outbound, dup, settings>>

---------------------------------------------------------------------------
(* models/Settings and routes/settings                                     *)

EXCLUDED_PLEX_LIBRARIES == "excludedPlexLibraries"

\* the keys in use: the one the server names and one only clients name
SettingKeys == {EXCLUDED_PLEX_LIBRARIES, "other"}

\* a field of a JSON body: absent (undefined), null, a string, an array
Absent == [kind |-> "undefined", items |-> <<>>]
JsonNull == [kind |-> "null", items |-> <<>>]
JsonString(text) == [kind |-> "string", items |-> <<text>>]
JsonArray(items) == [kind |-> "array", items |-> items]

JsonFields == {Absent, JsonNull, JsonString("k"), JsonArray(<<>>), JsonArray(<<"1:1">>)}

\* Settings.findOne({ key })
findOne(coll, key) == {d \in coll : d.key = key}

\* getSetting(key, defaultValue)
getSetting(coll, key, defaultValue) ==
    IF findOne(coll, key) = {} THEN defaultValue
    ELSE (CHOOSE d \in findOne(coll, key) : TRUE).value

\* a write that inserts a document whatever the collection holds
setSettingByInsert(coll, key, value) == coll \cup {[key |-> key, value |-> value]}

\* setSetting(key, value): findOneAndUpdate({ key }, { key, value }, { upsert: true })
setSetting(coll, key, value) ==
    IF findOne(coll, key) = {}
    THEN coll \cup {[key |-> key, value |-> value]}
    ELSE LET old == CHOOSE d \in findOne(coll, key) : TRUE
         IN (coll \ {old}) \cup {[key |-> key, value |-> value]}

\* router.get('/'): result[s.key] = s.value for every document
GetSettings ==
    /\ req' = [op |-> "getSettings"]
    /\ res' = [status |-> 200,
               body |-> [kind |-> "settings",
                         result |-> [k \in {d.key : d \in settings} |->
                                        getSetting(settings, k, JsonNull)]]]
    /\ outbound' = <<>>
    /\ UNCHANGED <<instances, nextId, dup, view, settings>>

\* router.get('/:key')
GetSettingByKey ==
    \E key \in SettingKeys :
        /\ req' = [op |-> "getSetting", key |-> key]
        /\ res' = [status |-> 200,
                   body |-> [kind |-> "setting", key |-> key,
                             value |-> IF findOne(settings, key) = {} THEN JsonNull
                                       ELSE (CHOOSE d \in findOne(settings, key) : TRUE).value]]
        /\ outbound' = <<>>
        /\ UNCHANGED <<instances, nextId, dup, view, settings>>

\* router.put('/:key')
PutSettingByKey ==
    \E key \in SettingKeys, value \in JsonFields :
        /\ req' = [op |-> "putSetting", key |-> key, value |-> value]
        /\ outbound' = <<>>
        /\ UNCHANGED <<instances, nextId, dup, view>>
        /\ IF value = Absent
           THEN /\ res' = [status |-> 400, body |-> ErrorBody("Value is required")]
                /\ UNCHANGED settings
           ELSE /\ settings' = setSetting(settings, key, value)
                /\ res' = [status |-> 200,
                           body |-> [kind |-> "setting", key |-> key, value |-> value]]

\* router.get('/plex/excluded-libraries')
GetExcludedLibraries ==
    /\ req' = [op |-> "getExcluded"]
    /\ res' = [status |-> 200,
               body |-> [kind |-> "value",
                         value |-> getSetting(settings, EXCLUDED_PLEX_LIBRARIES,
                                              JsonArray(<<>>))]]
    /\ outbound' = <<>>
    /\ UNCHANGED <<instances, nextId, dup, view, settings>>

\* router.put('/plex/excluded-libraries')
PutExcludedLibraries ==
    \E libraries \in JsonFields :
        /\ req' = [op |-> "putExcluded", value |-> libraries]
        /\ outbound' = <<>>
        /\ UNCHANGED <<instances, nextId, dup, view>>
        /\ IF libraries.kind # "array"
           THEN /\ res' = [status |-> 400, body |-> ErrorBody("Libraries must be an array")]
                /\ UNCHANGED settings
           ELSE /\ settings' = setSetting(settings, EXCLUDED_PLEX_LIBRARIES, libraries)
                /\ res' = [status |-> 200,
                           body |-> [kind |-> "libraries", value |-> libraries]]

---------------------------------------------------------------------------
(* The registry and its routes                                             *)

Init ==
    /\ instances = {}
    /\ nextId = 1
    /\ req = NoReq
    /\ settings = {}
    /\ res = NoRes
    /\ outbound = <<>>
    /\ dup = NoDup
    /\ view = NoView

Next ==
    \/ GetInstances
    \/ GetInstancesByType
    \/ GetInstanceById
    \/ CreateInstance
    \/ UpdateInstance
    \/ DeleteInstance

Spec == Init /\ [][Next]_vars

---------------------------------------------------------------------------
(* The movie list with its movies loaded                                   *)

InitList ==
    /\ instances = {}
    /\ nextId = 1
    /\ req = NoReq
    /\ settings = {}
    /\ res = NoRes
    /\ outbound = <<>>
    /\ dup = NoDup
    /\ view = [page |-> "list", movies |-> ListedMovies, search |-> <<>>,
               filterMode |-> "downloaded", pathFilter |-> <<>>, selectedIds |-> {}]

NextList ==
    \/ \E id \in 1 .. Len(ListedMovies) : toggleSelect(id)
    \/ toggleSelectAll
    \/ \E text \in Searches : setSearch(text)
    \/ \E mode \in FilterModes : setFilterMode(mode)
    \/ \E path \in PathFilters : setPathFilter(path)

SpecList == InitList /\ [][NextList]_vars

---------------------------------------------------------------------------
(* The activity indicator from its mount on                                *)

\* mounted: useState([]), the effect has run once
InitActivity ==
    /\ instances = {}
    /\ nextId = 1
    /\ req = NoReq
    /\ settings = {}
    /\ res = NoRes
    /\ outbound = <<>>
    /\ dup = NoDup
    /\ view = StartCycle([page |-> "activity", mounted |-> TRUE, list |-> 1,
                          status |-> 1, cycles |-> <<>>,
                          recentCommands |-> [cycle |-> 0, commands |-> NoCommands]])

NextActivity ==
    \/ setIntervalFires
    \/ InstancesChange
    \/ Unmount
    \/ CommandAdvances
    \/ \E n \in 1 .. MaxCycles : n <= Len(view.cycles) /\ CycleFetches(n)
    \/ \E n \in 1 .. MaxCycles : n <= Len(view.cycles) /\ CycleEnds(n)

SpecActivity == InitActivity /\ [][NextActivity]_vars

---------------------------------------------------------------------------
(* client/pages/Settings: the two save buttons                             *)

\* the timeouts of 2000 ms one button can have waiting at a time
MaxTimers == 2

\* the two forms of the page: the excluded libraries and the metadata API key
Savers == {"libraries", "tmdb"}

\* the library keys the page lists and the texts typed in the key field
PlexLibraryKeys == {"1:1", "1:2"}

TmdbKeys == {"", "k"}

Drafts(s) == IF s = "libraries" THEN SUBSET PlexLibraryKeys ELSE TmdbKeys

\* hasChanges() and hasTmdbChanges(): the draft differs from the fetched value
\* (a set compared by size and membership, a string by !==)
hasChanges(v) == v.draft["libraries"] # v.data["libraries"]

hasTmdbChanges(v) == v.draft["tmdb"] # v.data["tmdb"]

Changed(v, s) == IF s = "libraries" THEN hasChanges(v) ELSE hasTmdbChanges(v)

\* handleToggleLibrary(key): the key enters or leaves selectedLibraries
handleToggleLibrary(key) ==
    /\ view.page = "settings"
    /\ view' = [view EXCEPT !.draft["libraries"] =
                    IF key \in @ THEN @ \ {key} ELSE @ \cup {key}]
    /\ UNCHANGED <<instances, nextId, req, res, outbound, dup, settings>>

\* the onChange of the key field: setTmdbKey(e.target.value)
setTmdbKey(text) ==
    /\ view.page = "settings"
    /\ view.draft["tmdb"] # text
    /\ view' = [view EXCEPT !.draft["tmdb"] = text]
    /\ UNCHANGED <<instances, nextId, req, res, outbound, dup, settings>>

\* a click on a Save button, which is disabled without changes and while its
\* mutation is pending: the status is set to 'saving' and the draft is sent
StartSave(s) ==
    /\ view.page = "settings"
    /\ Changed(view, s)
    /\ ~view.pending[s]
    /\ view.timers[s] < MaxTimers
    /\ view' = [view EXCEPT !.status[s] = "saving",
                            !.pending[s] = TRUE,
                            !.sent[s] = view.draft[s]]
    /\ UNCHANGED <<instances, nextId, req, res, outbound, dup, settings>>

handleSave == StartSave("libraries")

handleTmdbSave == StartSave("tmdb")

\* the PUT of a save settles. Fulfilled, onSuccess runs: the value is stored,
\* the query is invalidated, the status is 'saved' and a timeout is set.
\* Rejected, the mutation has no handler to run: it only stops being pending
SaveSettles(s) ==
    /\ view.page = "settings"
    /\ view.pending[s]
    /\ \E ok \in BOOLEAN :
          view' = IF ok
                  THEN [view EXCEPT !.pending[s] = FALSE,
                                    !.stored[s] = view.sent[s],
                                    !.stale[s] = TRUE,
                                    !.status[s] = "saved",
                                    !.timers[s] = @ + 1]
                  ELSE [view EXCEPT !.pending[s] = FALSE]
    /\ UNCHANGED <<instances, nextId, req, res, outbound, dup, settings>>

\* a timeout set by onSuccess fires: the status is 'idle'
TimerFires(s) ==
    /\ view.page = "settings"
    /\ view.timers[s] > 0
    /\ view' = [view EXCEPT !.status[s] = "idle", !.timers[s] = @ - 1]
    /\ UNCHANGED <<instances, nextId, req, res, outbound, dup, settings>>

\* the invalidated query is fetched again and the effect on its data copies the
\* fetched value into the draft
Refetched(s) ==
    /\ view.page = "settings"
    /\ view.stale[s]
    /\ view' = [view EXCEPT !.stale[s] = FALSE,
                            !.data[s] = view.stored[s],
                            !.draft[s] = view.stored[s]]
    /\ UNCHANGED <<instances, nextId, req, res, outbound, dup, settings>>

\* the page with both queries loaded: the drafts are the stored values
InitSettingsPage ==
    /\ instances = {}
    /\ nextId = 1
    /\ req = NoReq
    /\ settings = {}
    /\ res = NoRes
    /\ outbound = <<>>
    /\ dup = NoDup
    /\ \E libs \in SUBSET PlexLibraryKeys, key \in TmdbKeys :
          LET value == [s \in Savers |-> IF s = "libraries" THEN libs ELSE key]
          IN view = [page |-> "settings", stored |-> value, data |-> value,
                     draft |-> value, sent |-> value,
                     stale |-> [s \in Savers |-> FALSE],
                     pending |-> [s \in Savers |-> FALSE],
                     status |-> [s \in Savers |-> "idle"],
                     timers |-> [s \in Savers |-> 0]]

NextSettingsPage ==
    \/ \E key \in PlexLibraryKeys : handleToggleLibrary(key)
    \/ \E text \in TmdbKeys : setTmdbKey(text)
    \/ handleSave
    \/ handleTmdbSave
    \/ \E s \in Savers : SaveSettles(s)
    \/ \E s \in Savers : TimerFires(s)
    \/ \E s \in Savers : Refetched(s)

SpecSettingsPage == InitSettingsPage /\ [][NextSettingsPage]_vars

\* the requests settle and the timeouts fire; nobody has to click
FairSettingsPage ==
    /\ SpecSettingsPage
    /\ \A s \in Savers : WF_vars(SaveSettles(s))
    /\ \A s \in Savers : WF_vars(TimerFires(s))
    /\ \A s \in Savers : WF_vars(Refetched(s))

---------------------------------------------------------------------------
(* The settings store and its routes                                       *)

NextSettings ==
    \/ GetSettings
    \/ GetSettingByKey
    \/ PutSettingByKey
    \/ GetExcludedLibraries
    \/ PutExcludedLibraries

SpecSettings == Init /\ [][NextSettings]_vars

---------------------------------------------------------------------------
(* The proxy over a registry of any content                                *)

\* the registries the proxy is run against: any subset of the ObjectIds in use,
\* each instance of any type, enabled or not; the instances differ in credential
\* and in the spelling of the URL
ProxyDocs(id) ==
    {[_id |-> id, name |-> "A", type |-> t,
      url |-> IF id % 2 = 1 THEN Url ELSE UrlSlash,
      apiKey |-> IF id % 2 = 1 THEN "k1" ELSE "k2",
      isEnabled |-> e] : t \in InstanceTypes, e \in BOOLEAN}

Registries ==
    {r \in SUBSET UNION {ProxyDocs(i) : i \in ObjectIds} :
        Cardinality(Ids(r)) = Cardinality(r)}

InitProxy ==
    /\ instances \in Registries
    /\ nextId = MaxId + 1
    /\ req = NoReq
    /\ settings = {}
    /\ res = NoRes
    /\ outbound = <<>>
    /\ dup = NoDup
    /\ view = NoView

NextProxy ==
    \/ SonarrAll
    \/ RadarrAll
    \/ PlexAll
    \/ SonarrSeries
    \/ RadarrMovies
    \/ PlexGet

SpecProxy == InitProxy /\ [][NextProxy]_vars

---------------------------------------------------------------------------
(* The connection tester over a registry of any content                    *)

NextTest ==
    \/ TestInstance
    \/ TestUnsaved

SpecTest == InitProxy /\ [][NextTest]_vars

---------------------------------------------------------------------------
(* The Duplicates page over any catalogs of two instances                  *)

\* the pairs of catalogs with at most MaxItems items together
CatalogPairs(Items) ==
    UNION {[1 .. n[1] -> Items] \X [1 .. n[2] -> Items] :
              n \in {m \in (0 .. MaxItems) \X (0 .. MaxItems) : m[1] + m[2] <= MaxItems}}

InitDup ==
    /\ instances = {}
    /\ nextId = 1
    /\ req = NoReq
    /\ settings = {}
    /\ res = NoRes
    /\ outbound = <<>>
    /\ view = NoView
    /\ \E kind \in {"movies", "series"} :
          \E c \in CatalogPairs(IF kind = "movies" THEN Movies ELSE SeriesItems) :
              /\ Len(c[1]) + Len(c[2]) <= MaxItems
              /\ dup = [phase |-> "fetching", kind |-> kind, catalogs |-> c,
                        idx |-> 1, failed |-> {}, data |-> <<>>, report |-> <<>>]

NextDup ==
    \/ DupFetchNext
    \/ DupRender

SpecDup == InitDup /\ [][NextDup]_vars

---------------------------------------------------------------------------
(* The comparison memo of the Compare page over any data of the two queries *)

InitComparison ==
    /\ instances = {}
    /\ nextId = 1
    /\ req = NoReq
    /\ settings = {}
    /\ res = NoRes
    /\ outbound = <<>>
    /\ dup = NoDup
    /\ \E p \in SeqsUpTo(PlexShapes, MaxRows), a \in SeqsUpTo(ArrShapes, MaxRows),
          t \in MediaTypes :
          view = [page |-> "comparison", phase |-> "data",
                  plexData |-> PlexData(p), arrData |-> ArrData(a),
                  compareMode |-> "plex-vs-arr", mediaType |-> t,
                  comparison |-> <<>>, stats |-> stats(<<>>)]

NextComparison ==
    \/ RenderComparison
    \/ \E mode \in CompareModes : setCompareMode(mode)

SpecComparison == InitComparison /\ [][NextComparison]_vars

---------------------------------------------------------------------------
(* The Compare page's queries over any stored setting and arr catalogs     *)

InitCompare ==
    /\ instances = {}
    /\ nextId = 1
    /\ req = NoReq
    /\ settings = {}
    /\ res = NoRes
    /\ outbound = <<>>
    /\ dup = NoDup
    /\ \E stored \in SUBSET LibraryKeys, t \in MediaTypes,
          catalogs \in [SeqToSet(CompareRadarr) \cup SeqToSet(CompareSonarr) -> ArrCatalogs] :
          view = [page |-> "compare", stored |-> stored, catalogs |-> catalogs,
                  mediaType |-> t,
                  loaded |-> [k \in InstanceTypes |-> FALSE],
                  excludedLoaded |-> FALSE, excludedLibraries |-> {},
                  plexQuery |-> Pending, arrQuery |-> Pending]

NextCompare ==
    \/ \E type \in InstanceTypes : LoadInstances(type)
    \/ LoadExcluded
    \/ PlexQuerySettles
    \/ ArrQuerySettles

SpecCompare == InitCompare /\ [][NextCompare]_vars

---------------------------------------------------------------------------
(* The Cutoff Unmet page over any below-cutoff lists and movie lists       *)

InitCutoff ==
    /\ instances = {}
    /\ nextId = 1
    /\ req = NoReq
    /\ settings = {}
    /\ res = NoRes
    /\ outbound = <<>>
    /\ dup = NoDup
    /\ \E records \in [SeqToSet(CutoffRadarr) -> SeqsUpTo(MovieIds, MaxRecords)],
          movies \in [SeqToSet(CutoffRadarr) -> [MovieIds -> MovieStates]] :
          view = [page |-> "cutoff", phase |-> "fetching", records |-> records,
                  movies |-> movies, idx |-> 1, failed |-> {}, data |-> <<>>,
                  items |-> <<>>]

NextCutoff ==
    \/ CutoffFetchNext
    \/ CutoffRender

SpecCutoff == InitCutoff /\ [][NextCutoff]_vars

---------------------------------------------------------------------------
(* Bulk actions over a selection of a list that may be out of date         *)

\* the selections: the first n movies of the list, as fetched
Selections ==
    UNION {[1 .. n -> BOOLEAN] : n \in 1 .. MaxSelected}

InitBulk ==
    /\ instances = {}
    /\ nextId = 1
    /\ req = NoReq
    /\ settings = {}
    /\ res = NoRes
    /\ outbound = <<>>
    /\ dup = NoDup
    /\ \E monitored \in Selections, moved \in SUBSET (1 .. MaxSelected) :
          /\ moved \subseteq DOMAIN monitored
          /\ view = [page |-> "bulk",
                     selectedItems |->
                         [i \in DOMAIN monitored |->
                             [id |-> i, monitored |-> monitored[i],
                              qualityProfileId |-> 1, path |-> PathOf("a", i)]],
                     upstream |->
                         [i \in DOMAIN monitored |->
                             [exists |-> TRUE, monitored |-> monitored[i],
                              qualityProfileId |-> 1,
                              path |-> PathOf(IF i \in moved THEN "b" ELSE "a", i)]],
                     isProcessing |-> FALSE, showDeleteConfirm |-> FALSE,
                     job |-> NoJob, calls |-> <<>>, console |-> NoLog,
                     showBulkMove |-> FALSE, selectedDestination |-> NoDestination,
                     error |-> NoError, isMoving |-> FALSE, batch |-> "none",
                     moves |-> [i \in DOMAIN monitored |-> Idle]]

NextBulk ==
    \/ \E monitored \in BOOLEAN : handleSetMonitored(monitored)
    \/ \E qualityProfileId \in ProfileIds \cup {0} : handleChangeQuality(qualityProfileId)
    \/ \E show \in BOOLEAN : setShowDeleteConfirm(show)
    \/ handleDelete
    \/ JobCallIssued
    \/ JobCallSettles
    \/ JobDone
    \/ onMoveClick
    \/ onClose
    \/ \E dest \in allShortPaths \cup {NoDestination} : setSelectedDestination(dest)
    \/ handleMove
    \/ \E id \in 1 .. MaxSelected : id \in DOMAIN view.moves /\ MoveGetSettles(id)
    \/ \E id \in 1 .. MaxSelected : id \in DOMAIN view.moves /\ MovePutSettles(id)

SpecBulk == InitBulk /\ [][NextBulk]_vars

---------------------------------------------------------------------------
(* Properties of the instance routes (Spec)                                *)

\* C1: no response of the list, list-by-type, get, create and update routes
\* carries the apiKey field of an instance; in particular the record answered
\* to a valid creation (201) has none.
C1_NoCredentialInResponse ==
    /\ res.body.kind = "list" =>
          \A i \in 1 .. Len(res.body.items) : "apiKey" \notin DOMAIN res.body.items[i]
    /\ res.body.kind = "doc" => "apiKey" \notin DOMAIN res.body.doc
    /\ req.op = "create" /\ SchemaOk(req.body) =>
          /\ res.status = 201
          /\ res.body.kind = "doc"
          /\ DOMAIN res.body.doc = {"_id", "name", "type", "url", "isEnabled"}

\* C1 witness: a list of two stored instances (each with a credential) was sent
C1_Witness ==
    /\ req.op = "list"
    /\ Len(res.body.items) = 2
    /\ \A d \in instances : d.apiKey \in Keys

\* ids that were handed out and are no longer in the registry
Deleted == {id \in ObjectIds : id < nextId /\ id \notin Ids(instances)}

\* C2: a delete of an id that is not in the registry answers 404 and leaves
\* the registry as it is; a delete of a stored id removes it; an id that was
\* removed never comes back, and a get of an id that is not stored answers 404.
C2_DeleteStep ==
    /\ (req'.op = "delete" /\ req'.id \notin Ids(instances)) =>
          res'.status = 404 /\ instances' = instances
    /\ (req'.op = "delete" /\ req'.id \in Ids(instances)) =>
          /\ res'.status = 200
          /\ req'.id \notin Ids(instances')
          /\ instances' = {d \in instances : d._id # req'.id}
    /\ Deleted \subseteq Deleted'
    /\ (req'.op = "get" /\ req'.id \in Deleted') => res'.status = 404

---------------------------------------------------------------------------
(* Properties of the proxy (SpecProxy)                                     *)

Target == findById(instances, req.id)
TargetDoc == CHOOSE d \in Target : TRUE
IsError(msg) == res.body.kind = "error" /\ res.body.error = msg
PlexRoutes == {"plex/*", "plex"}
CatchAllRoutes == {"sonarr/*", "radarr/*", "plex/*"}

C4_AsClaimed ==
    (req.op = "proxy" /\ Target # {}) =>
        \A i \in 1 .. Len(outbound) :
            LET h == outbound[i].headers
            IN /\ ("X-Api-Key" \in DOMAIN h) <=> (TargetDoc.type \in {"sonarr", "radarr"})
               /\ ("X-Plex-Token" \in DOMAIN h) <=> (TargetDoc.type = "plex")
               /\ \A n \in (DOMAIN h) \cap {"X-Api-Key", "X-Plex-Token"} :
                      h[n] = TargetDoc.apiKey

\* the path and query string of the inbound request, as the upstream sees them
SamePath(in, up) == up.suffix = <<"/">> \o in.suffix
SameQuery(in, up) == up.query = in.query

\* C5 as claimed: on the three catch-all routes, the upstream request of an
\* existing enabled instance has the method, path suffix, query string and body
\* of the inbound request.
C5_AsClaimed ==
    (req.op = "proxy" /\ req.route \in CatchAllRoutes /\ Target # {}
        /\ TargetDoc.isEnabled) =>
        \A i \in 1 .. Len(outbound) :
            /\ outbound[i].method = req.in.method
            /\ SamePath(req.in, outbound[i])
            /\ SameQuery(req.in, outbound[i])
            /\ outbound[i].data = req.in.body

\* C6 as claimed: for a request that reached the upstream, a 2xx answer is
\* relayed with its status and body, another status with that status and an
\* error message, and no answer or an unclassified failure as 500.
C6_AsClaimed ==
    (req.op = "proxy" /\ outbound # <<>>) =>
        LET o == req.upstream
        IN /\ (o.kind = "response" /\ Is2xx(o.status)) =>
                 /\ res.status = o.status
                 /\ res.body = [kind |-> "data", data |-> o.data]
           /\ (o.kind = "response" /\ ~Is2xx(o.status)) =>
                 /\ res.status = o.status
                 /\ res.body.kind = "error"
                 /\ res.body.error # Nil
           /\ o.kind # "response" => res.status = 500 /\ res.body.kind = "error"

---------------------------------------------------------------------------
(* Properties of the connection tester (SpecTest)                          *)

InvalidCredential == {"Invalid API key", "Invalid Plex token"}

\* C7: when the upstream answers the status request with 401, the result is
\* 'Invalid API key' (sonarr, radarr) or 'Invalid Plex token' (plex), never
\* 'Connection failed'.
C7_RejectedCredential ==
    (req.op \in {"test", "testUnsaved"} /\ outbound # <<>>
        /\ req.upstream.kind = "response" /\ req.upstream.status = 401) =>
        /\ res.body.kind = "test"
        /\ ~res.body.result.success
        /\ res.body.result.message =
              (IF req.type = "plex" THEN "Invalid Plex token" ELSE "Invalid API key")

\* C7 witness: a stored plex instance whose token the server rejects
C7_Witness ==
    /\ req.op = "test"
    /\ req.type = "plex"
    /\ outbound # <<>>
    /\ req.upstream.status = 401
    /\ res.body.kind = "test"
    /\ res.body.result.message = "Invalid Plex token"

\* C8: testConnection always returns: at most one request is issued; success
\* only after a 2xx answer; a failure is 'Invalid ...' exactly after a 401,
\* 'Connection refused' exactly after ECONNREFUSED, 'Connection timed out'
\* exactly after ETIMEDOUT or ECONNABORTED, and 'Connection failed' in every
\* other case; an unknown kind gives 'Unknown instance type' and no request.
C8_TestConnectionTotal ==
    (req.op \in {"test", "testUnsaved"} /\ res.status \notin {400, 404}) =>
        LET o == req.upstream
            r == res.body.result
            rejected == o.kind = "response" /\ o.status = 401
            refused == o.kind = "noResponse" /\ o.code = "ECONNREFUSED"
            timedOut == o.kind = "noResponse" /\ o.code \in {"ETIMEDOUT", "ECONNABORTED"}
        IN /\ res.status = 200
           /\ res.body.kind = "test"
           /\ Len(outbound) <= 1
           /\ r.success => (outbound # <<>> /\ o.kind = "response" /\ Is2xx(o.status))
           /\ req.type \notin InstanceTypes <=> outbound = <<>>
           /\ req.type \notin InstanceTypes =>
                 ~r.success /\ r.message = "Unknown instance type"
           /\ (req.type \in InstanceTypes /\ ~r.success) =>
                 /\ r.message \in InvalidCredential <=> rejected
                 /\ r.message = "Connection refused - check URL" <=> refused
                 /\ r.message = "Connection timed out" <=> timedOut
                 /\ r.message = "Connection failed" <=>
                        ~(rejected \/ refused \/ timedOut)

\* C8 witness: the upstream answered 200 with a null body, the reading of the
\* version threw, and the result is still a returned 'Connection failed'
C8_Witness ==
    /\ req.op = "testUnsaved"
    /\ outbound # <<>>
    /\ req.upstream.kind = "response"
    /\ req.upstream.status = 200
    /\ res.body.kind = "test"
    /\ res.body.result.message = "Connection failed"

---------------------------------------------------------------------------
(* Properties of the Duplicates report (SpecDup)                           *)

\* the on-disk size of an item (0 for a series without statistics)
OnDisk(item) == IF item.sizeOnDisk = NoStatistics THEN 0 ELSE item.sizeOnDisk

\* positions in the merged collection of the items with external id ext
WithExtId(ext) == {i \in 1 .. Len(dup.data) : dup.data[i].item.extId = ext}

\* the entry a group holds for the item at position i of the merged collection
EntryOf(i) ==
    [instanceId |-> dup.data[i].instance, sizeOnDisk |-> OnDisk(dup.data[i].item),
     itemId |-> dup.data[i].item.id]

Entries(group) == {group.instances[j] : j \in 1 .. Len(group.instances)}

\* C9: when exactly two items of the merged collection share an external id and
\* come from two different instances, the report has exactly one group for that
\* id, its entries are exactly those two items, its totalSize is the sum of
\* their sizes, and no other group holds them, whatever their titles and years.
C9_TwoCopiesOneGroup ==
    dup.phase = "shown" =>
        \A ext \in {1, 2} :
            LET pos == WithExtId(ext)
                groups == {g \in 1 .. Len(dup.report) :
                              /\ dup.report[g].key.scheme # "title"
                              /\ dup.report[g].key.id = ext}
            IN (/\ Cardinality(pos) = 2
                /\ Cardinality({dup.data[i].instance : i \in pos}) = 2) =>
                   /\ Cardinality(groups) = 1
                   /\ \A g \in groups :
                         /\ Len(dup.report[g].instances) = 2
                         /\ Entries(dup.report[g]) = {EntryOf(i) : i \in pos}
                         /\ \E i, j \in pos :
                               /\ i # j
                               /\ dup.report[g].totalSize =
                                     OnDisk(dup.data[i].item) + OnDisk(dup.data[j].item)
                   /\ \A g \in (1 .. Len(dup.report)) \ groups :
                         Entries(dup.report[g]) \cap {EntryOf(i) : i \in pos} = {}

\* C9 witness: a movie with tmdbId 1 in both instances, under different titles,
\* years and sizes, next to a third movie; its group is reported with size 3
C9_Witness ==
    /\ dup.phase = "shown"
    /\ dup.kind = "movies"
    /\ Len(dup.data) = 3
    /\ \E i, j \in WithExtId(1) :
          /\ dup.data[i].instance # dup.data[j].instance
          /\ dup.data[i].item.title # dup.data[j].item.title
          /\ dup.data[i].item.year # dup.data[j].item.year
          /\ dup.data[i].item.sizeOnDisk # dup.data[j].item.sizeOnDisk
    /\ Cardinality(WithExtId(1)) = 2
    /\ Len(dup.report) = 1
    /\ dup.report[1].totalSize = 3

\* C10 as claimed: every reported group has entries of at least two different
\* instances, so a key that only one instance returns is never reported.
C10_AsClaimed ==
    dup.phase = "shown" =>
        \A g \in 1 .. Len(dup.report) :
            Cardinality({e.instanceId : e \in Entries(dup.report[g])}) >= 2

\* the report has a group that holds the items at positions i and j
InOneGroup(i, j) ==
    \E g \in 1 .. Len(dup.report) :
        {EntryOf(i), EntryOf(j)} \subseteq Entries(dup.report[g])

\* C11 as claimed: two items without an external identifier that come from
\* different instances are reported in one duplicate group when their titles
\* are equal after lowercasing and stripping every non-alphanumeric character
\* and their years are equal, and are not in one group when they have the same
\* title and different years.
C11_AsClaimed ==
    dup.phase = "shown" =>
        \A i, j \in WithExtId(0) :
            dup.data[i].instance # dup.data[j].instance =>
                /\ (/\ normalize(dup.data[i].item.title) = normalize(dup.data[j].item.title)
                    /\ dup.data[i].item.year = dup.data[j].item.year)
                       => InOneGroup(i, j)
                /\ (/\ dup.data[i].item.title = dup.data[j].item.title
                    /\ dup.data[i].item.year # dup.data[j].item.year)
                       => ~InOneGroup(i, j)

---------------------------------------------------------------------------
(* Properties of the comparison memo (SpecComparison)                      *)

\* the items of both sides with the key the memo gives them
KeyedPlex == {[key |-> plexItemKey(view.plexData[i]), title |-> view.plexData[i].title,
               year |-> view.plexData[i].year] : i \in 1 .. Len(view.plexData)}
KeyedArr == {[key |-> arrItemKey(view.arrData[i]), title |-> view.arrData[i].title,
              year |-> view.arrData[i].year] : i \in 1 .. Len(view.arrData)}

PlexKeySet == {x.key : x \in KeyedPlex}
ArrKeySet == {x.key : x \in KeyedArr}

\* the keys of the items a row points to (its plexKey and its arrId)
RowKeys(r) ==
    {plexItemKey(view.plexData[i]) :
        i \in {n \in 1 .. Len(view.plexData) : view.plexData[n].ratingKey = r.plexKey}}
    \cup {arrItemKey(view.arrData[i]) :
        i \in {n \in 1 .. Len(view.arrData) : view.arrData[n].id = r.arrId}}

\* C12 as claimed: two items of either side have the same key exactly when
\* their normalized titles are equal and their years are equal (a missing year
\* equal only to a missing year); so a title ending in digits without a year
\* never has the key of a shorter title with a year.
C12_AsClaimed ==
    (view.page = "comparison" /\ view.phase = "memo") =>
        \A x, y \in KeyedPlex \cup KeyedArr :
            (x.key = y.key) <=>
                (normalize(x.title) = normalize(y.title) /\ x.year = y.year)

\* C13: the report has exactly one row per key of the union of the two key
\* maps; a row is synced iff its key is in both maps, only-in-Plex iff it is in
\* the Plex map alone, only-in-arr iff it is in the arr map alone; the three
\* summary counts add up to the number of rows.
C13_OneRowPerKey ==
    (view.page = "comparison" /\ view.phase = "memo") =>
        LET rows == view.comparison
        IN /\ Len(rows) = Cardinality(PlexKeySet \cup ArrKeySet)
           /\ \A i \in 1 .. Len(rows) : Cardinality(RowKeys(rows[i])) = 1
           /\ \A k \in PlexKeySet \cup ArrKeySet :
                 Cardinality({i \in 1 .. Len(rows) : k \in RowKeys(rows[i])}) = 1
           /\ \A i \in 1 .. Len(rows), k \in PlexKeySet \cup ArrKeySet :
                 k \in RowKeys(rows[i]) =>
                    /\ InBoth(rows[i]) <=> (k \in PlexKeySet /\ k \in ArrKeySet)
                    /\ OnlyPlex(rows[i]) <=> (k \in PlexKeySet /\ k \notin ArrKeySet)
                    /\ OnlyArr(rows[i]) <=> (k \in ArrKeySet /\ k \notin PlexKeySet)
           /\ view.stats.inBoth + view.stats.onlyPlex + view.stats.onlyArr = Len(rows)

\* C13 witness: a report with a synced row, an only-in-Plex row and an
\* only-in-arr row, built from two items on each side
C13_Witness ==
    /\ view.page = "comparison"
    /\ view.phase = "memo"
    /\ Len(view.plexData) = 2
    /\ Len(view.arrData) = 2
    /\ view.stats = [inBoth |-> 1, onlyPlex |-> 1, onlyArr |-> 1]
    /\ Len(view.comparison) = 3

\* C14 as claimed: in the sorted report no synced row precedes a one-sided
\* row, and among the one-sided rows those of the side the mode selects come
\* first.
C14_AsClaimed ==
    (view.page = "comparison" /\ view.phase = "memo") =>
        \A i, j \in 1 .. Len(view.comparison) :
            i < j =>
                LET a == view.comparison[i]
                    b == view.comparison[j]
                IN /\ ~(InBoth(a) /\ (OnlyPlex(b) \/ OnlyArr(b)))
                   /\ ~(/\ (OnlyPlex(a) \/ OnlyArr(a))
                         /\ ~SortsFirst(a, view.compareMode)
                         /\ SortsFirst(b, view.compareMode))

\* C14 amended: the rows present only in the side the mode selects come first,
\* in title order; every other row (synced, or present only in the other
\* side) follows them, these others ordered together by title.
C14_Amended ==
    (view.page = "comparison" /\ view.phase = "memo") =>
        \A i, j \in 1 .. Len(view.comparison) :
            i < j =>
                LET a == view.comparison[i]
                    b == view.comparison[j]
                IN /\ SortsFirst(b, view.compareMode) => SortsFirst(a, view.compareMode)
                   /\ (SortsFirst(a, view.compareMode) <=> SortsFirst(b, view.compareMode))
                         => localeCompare(a.title, b.title) <= 0

\* C14 witness: in mode arr-vs-plex an only-in-arr row comes first although its
\* title sorts last, then a synced row precedes an only-in-Plex row
C14_Witness ==
    /\ view.page = "comparison"
    /\ view.phase = "memo"
    /\ view.compareMode = "arr-vs-plex"
    /\ Len(view.comparison) = 3
    /\ OnlyArr(view.comparison[1])
    /\ InBoth(view.comparison[2])
    /\ OnlyPlex(view.comparison[3])
    /\ localeCompare(view.comparison[1].title, view.comparison[2].title) > 0

---------------------------------------------------------------------------
(* Properties of the Compare page's queries (SpecCompare)                  *)

\* the report is on display: neither query of the current keys is in flight
CompareShown ==
    /\ view.page = "compare"
    /\ view.plexQuery.status # "pending"
    /\ view.arrQuery.status # "pending"

\* the sub-library a Plex item was read from
LibraryOf(item) == <<item.ratingKey \div 10, item.ratingKey % 10>>

\* the catalog records an arr item of the report stands for
SourcesOf(item) ==
    {view.catalogs[item.instanceId][n] :
        n \in {k \in 1 .. Len(view.catalogs[item.instanceId]) :
                  view.catalogs[item.instanceId][k].id = item.id}}

\* C15 as claimed: whenever the report is shown, its Plex side holds no item of
\* a sub-library listed in the stored excluded-libraries setting and its arr
\* side holds no movie with hasFile false and no series without episode files,
\* in every interleaving of the loads.
C15_AsClaimed ==
    CompareShown =>
        /\ \A i \in 1 .. Len(view.plexQuery.data) :
              LibraryOf(view.plexQuery.data[i]) \notin view.stored
        /\ \A i \in 1 .. Len(view.arrQuery.data) :
              \A src \in SourcesOf(view.arrQuery.data[i]) :
                  IF view.mediaType = "movies" THEN src.hasFile
                  ELSE src.episodeFileCount > 0

\* the items of the report's arr side that come from an instance
ArrFrom(instance) ==
    SelectSeq(view.arrQuery.data, LAMBDA x : x.instanceId = instance)
PlexFrom(instance) ==
    SelectSeq(view.plexQuery.data, LAMBDA x : x.ratingKey \div 10 = instance)

\* the items of a Plex instance under the excluded set the query ran with
PlexInstanceAll(instance) ==
    PlexInstanceItems(instance,
                      IF view.excludedLoaded THEN view.excludedLibraries ELSE {},
                      view.mediaType, 0)

IsPrefix(p, q) == Len(p) <= Len(q) /\ p = SubSeq(q, 1, Len(p))

\* C17 as claimed, on the Compare page: when the report is shown, every
\* instance whose fetch did not fail contributes all of its items, on both
\* sides: the failure of another instance loses none of them. An instance whose
\* fetch failed contributes nothing (a Plex instance: nothing but the
\* libraries read before the failure).
C17_AsClaimed ==
    CompareShown =>
        /\ \A i \in SeqToSet(ArrList(view)) :
              ArrFrom(i) = IF i \in view.arrQuery.failed THEN <<>>
                           ELSE ArrInstanceItems(view.catalogs[i], i, view.mediaType)
        /\ \A i \in SeqToSet(ComparePlex) :
              IF i \in view.plexQuery.failed THEN IsPrefix(PlexFrom(i), PlexInstanceAll(i))
              ELSE PlexFrom(i) = PlexInstanceAll(i)

---------------------------------------------------------------------------
(* Properties of the Cutoff Unmet report (SpecCutoff)                      *)

\* the rows of the report that come from an instance
RowsOf(instance) == SelectSeq(view.items, LAMBDA x : x.instanceId = instance)

\* C16: for every instance whose fetch succeeded the report has exactly one
\* row per record of its below-cutoff list, in order; the row's current
\* quality is the quality name of the movie with the record's id in the same
\* instance, and 'Unknown' when that instance has no such movie with a file
\* quality, whatever another instance holds under the same id.
C16_SameInstanceQuality ==
    (view.page = "cutoff" /\ view.phase = "shown") =>
        \A i \in SeqToSet(CutoffRadarr) \ view.failed :
            /\ Len(RowsOf(i)) = Len(view.records[i])
            /\ \A n \in 1 .. Len(view.records[i]) :
                  LET rid == view.records[i][n]
                  IN /\ RowsOf(i)[n].id = <<"radarr", i, rid>>
                     /\ RowsOf(i)[n].currentQuality =
                           IF view.movies[i][rid] \in QualityNames
                           THEN view.movies[i][rid] ELSE Unknown

\* C16 witness: instance 1 lists records 1 and 2 and holds 'HD-1080p' for
\* movie 1 and no file for movie 2, instance 2 holds 'SD' for movie 2: the
\* report shows 'HD-1080p' and 'Unknown' for instance 1
C16_Witness ==
    /\ view.page = "cutoff"
    /\ view.phase = "shown"
    /\ view.failed = {}
    /\ view.records[1] = <<1, 2>>
    /\ view.movies[1] = (1 :> "HD-1080p" @@ 2 :> "nofile")
    /\ view.movies[2][2] = "SD"
    /\ Len(view.items) >= 2
    /\ view.items[1].currentQuality = "HD-1080p"
    /\ view.items[2].currentQuality = Unknown

---------------------------------------------------------------------------
(* More properties of the instance routes (Spec)                           *)

\* C18 as claimed: the list GET /instances/type/:type answers with, which the
\* report views iterate over, holds no instance whose isEnabled is false,
\* after any sequence of creates, updates and deletes.
C18_AsClaimed ==
    (req.op = "listByType" /\ res.status = 200) =>
        \A i \in 1 .. Len(res.body.items) : res.body.items[i].isEnabled

\* a per-item call of the running bulk action rejects in this step: the
\* awaited call of a handler's loop, or a call of a move batch
JobCallRejects ==
    /\ view.page = "bulk"
    /\ view.calls # <<>>
    /\ Len(view'.calls) = Len(view.calls)
    /\ view.calls[Len(view.calls)].state = "pending"
    /\ view'.calls[Len(view.calls)].state = "failed"

MoveCallRejects ==
    /\ view.page = "bulk"
    /\ \E id \in DOMAIN view.moves :
          view.moves[id].step # "failed" /\ view'.moves[id].step = "failed"

\* a failure message is on screen
FailureShown(v) == v.showBulkMove /\ v.error # NoError

\* C19: for each bulk action (set monitored, change quality profile, delete,
\* move), when a per-item upstream call rejects, the action ends and a failure
\* message is on screen for the user
C19_AsClaimed ==
    [][(JobCallRejects \/ MoveCallRejects)
          => /\ ~view'.isProcessing
             /\ ~view'.isMoving
             /\ FailureShown(view')]_vars

\* C20: an instance's type is immutable after creation: no operation of the
\* dashboard, a PUT /instances/:id with a valid payload included, changes the
\* type of an existing instance
C20_AsClaimed ==
    [][\A d \in instances : \A e \in instances' :
          d._id = e._id => d.type = e.type]_vars

\* C21: an update changes only the fields present in its payload: a payload
\* without apiKey (the edit form with the credential left blank) keeps the
\* stored credential, a payload without name, url, type or isEnabled keeps that
\* stored field, and no other instance is touched
C21_UpdateFrame ==
    [][(req'.op = "update" /\ res'.status = 200)
          => \A d \in instances : \A e \in instances' :
                d._id = e._id
                   => /\ d._id # req'.id => e = d
                      /\ \A f \in Fields \ DOMAIN req'.body : e[f] = d[f]]_vars

\* the edit form's payload without a credential was applied to an instance
\* whose stored credential and flag differ from the form's template
C21_Witness ==
    /\ req.op = "update"
    /\ res.status = 200
    /\ DOMAIN req.body = Fields \ {"apiKey"}
    /\ \E d \in instances : /\ d._id = req.id
                             /\ d.name = req.body.name
                             /\ d.apiKey = "k2"
                             /\ req.body.name = "A"

\* the fields of a payload that break their rule of the schema
BadFields(p) == {f \in (DOMAIN p) \cap Fields : ~FieldOk(f, p[f])}

\* C22: a create or update whose payload has a malformed field (empty or
\* over-long name, type outside the three kinds, non-URL url, empty
\* credential) is answered 400 'Validation failed' with details naming every
\* malformed field, and the instance collection is left unchanged
C22_MalformedRejected ==
    [][(req'.op \in {"create", "update"} /\ BadFields(req'.body) # {})
          => /\ res'.status = 400
             /\ res'.body.kind = "error"
             /\ res'.body.error = "Validation failed"
             /\ BadFields(req'.body) \subseteq res'.body.details
             /\ instances' = instances]_vars

\* an update with a type outside the three kinds was rejected while an
\* instance with the addressed id is stored
C22_Witness ==
    /\ req.op = "update"
    /\ BadFields(req.body) = {"type"}
    /\ res.status = 400
    /\ res.body.details = {"type"}
    /\ findById(instances, req.id) # {}

\* the key a write request addresses
WrittenKey(r) == IF r.op = "putExcluded" THEN EXCLUDED_PLEX_LIBRARIES ELSE r.key

SettingOf(coll, key) == (CHOOSE d \in coll : d.key = key).value

\* C23: the settings store keeps at most one record per key and never loses
\* a key; a successful write makes its value the stored value of its key and
\* touches no other key, every other request leaves the store as it is, and a
\* read answers the stored value of the key (null, or the route's default,
\* when the key was never written): so a read answers the most recent
\* successful write
C23_LastWriteRead ==
    [][/\ \A d \in settings' : \A e \in settings' : d.key = e.key => d = e
       /\ {d.key : d \in settings} \subseteq {d.key : d \in settings'}
       /\ IF req'.op \in {"putSetting", "putExcluded"} /\ res'.status = 200
          THEN /\ [key |-> WrittenKey(req'), value |-> req'.value] \in settings'
               /\ \A d \in settings : d.key # WrittenKey(req') => d \in settings'
               /\ \A d \in settings' : d.key # WrittenKey(req') => d \in settings
          ELSE settings' = settings
       /\ req'.op = "getSetting"
             => res'.body.value =
                   IF \E d \in settings : d.key = req'.key
                   THEN SettingOf(settings, req'.key) ELSE JsonNull
       /\ req'.op = "getExcluded"
             => res'.body.value =
                   IF \E d \in settings : d.key = EXCLUDED_PLEX_LIBRARIES
                   THEN SettingOf(settings, EXCLUDED_PLEX_LIBRARIES) ELSE JsonArray(<<>>)
       /\ req'.op = "getSettings"
             => /\ DOMAIN res'.body.result = {d.key : d \in settings}
                /\ \A d \in settings : res'.body.result[d.key] = d.value]_vars

\* both keys are stored, and a read of the server's key through the generic
\* route answers a string that only the generic write route can have stored
C23_Witness ==
    /\ req.op = "getSetting"
    /\ req.key = EXCLUDED_PLEX_LIBRARIES
    /\ res.body.value = JsonString("k")
    /\ {d.key : d \in settings} = SettingKeys

\* C24: in a bulk set-monitored, change-quality or delete action, when the
\* call for an item is the first to fail, the upstream is left as the earlier
\* calls made it (nothing is rolled back), the loop ends, and no call is
\* issued after the failed one
C24_FirstFailureStops ==
    [][/\ view.page = "bulk"
          => \A k \in 1 .. Len(view'.calls) :
                view'.calls[k].state = "failed" => k = Len(view'.calls)
       /\ JobCallRejects
          => /\ view'.upstream = view.upstream
             /\ view'.job = NoJob
             /\ ~view'.isProcessing]_vars

\* an unmonitor over two monitored movies failed at the second: the first is
\* unmonitored upstream, the second is as it was
C24_Witness ==
    /\ view.page = "bulk"
    /\ ~view.isProcessing
    /\ Len(view.calls) = 2
    /\ view.calls[1].state = "ok"
    /\ view.calls[2].state = "failed"
    /\ view.console = "Failed to update monitored status:"
    /\ Len(view.selectedItems) = 2
    /\ view.selectedItems[1].monitored /\ view.selectedItems[2].monitored
    /\ ~view.upstream[1].monitored
    /\ view.upstream[2].monitored

\* the calls of the running bar action that are in flight
PendingCalls(v) == {k \in 1 .. Len(v.calls) : v.calls[k].state = "pending"}

\* the per-item calls of the move batch that are in flight
PendingMoves(v) == {id \in DOMAIN v.moves : v.moves[id].step \in {"get", "put"}}

\* the step in which the Move button's handler runs
MoveStarts == view.page = "bulk" /\ ~view.isMoving /\ view'.isMoving

MoveLaunchesAll ==
    MoveStarts
       => \A k \in 1 .. Len(itemsToMove(view)) :
             view'.moves[itemsToMove(view)[k].id].step = "get"

\* C25: bulk move and bulk delete each issue all their per-item calls before
\* any of them is awaited, whereas the bulk set-monitored and change-quality
\* loops have at most one call in flight
C25_AsClaimed ==
    view.page = "bulk"
       => /\ view.job.kind = "delete" /\ (\E k \in 1 .. Len(view.calls) :
                                             view.calls[k].state # "pending")
             => Len(view.calls) = Len(view.job.items)
          /\ view.job.kind \in {"monitored", "quality"}
             => Cardinality(PendingCalls(view)) <= 1

\* C25 as the code has it: bulk move issues the calls of all the items to
\* move in the step its handler runs, before any is awaited; bulk delete, like
\* bulk set-monitored and change-quality, has at most one call in flight
C25_Amended ==
    [][/\ MoveLaunchesAll
       /\ view.page = "bulk" => Cardinality(PendingCalls(view')) <= 1]_vars

\* two calls of a move batch are in flight while a bulk delete over two items
\* has settled its first call and awaits its second
C25_Witness ==
    /\ view.page = "bulk"
    /\ Cardinality(PendingMoves(view)) = 2
    /\ view.job.kind = "delete"
    /\ Len(view.job.items) = 2
    /\ Len(view.calls) = 2
    /\ view.calls[1].state = "ok"
    /\ view.calls[2].state = "pending"

\* the poll cycles in flight
InFlight(v) == {n \in 1 .. Len(v.cycles) : ~v.cycles[n].done}

\* C26: the interval starts a new poll cycle whether or not an earlier cycle
\* is still in flight: while the component is mounted the next firing is
\* never held back (up to the bound on the cycles)
C26_NoInFlightGuard ==
    (view.page = "activity" /\ view.mounted /\ Len(view.cycles) < MaxCycles)
       => ENABLED setIntervalFires

\* two poll cycles are in flight at the same time
C26_Witness ==
    /\ view.page = "activity"
    /\ Cardinality(InFlight(view)) >= 2

\* C27: the command list shown comes from the most recently started poll
\* cycle among those that have completed: a write never replaces the result of
\* a newer cycle by that of an older one, and a cycle started for an earlier
\* instance list never writes after the list has changed
C27_AsClaimed ==
    [][(view.page = "activity" /\ view'.recentCommands # view.recentCommands)
          => /\ view'.recentCommands.cycle > view.recentCommands.cycle
             /\ view.cycles[view'.recentCommands.cycle].list = view.list]_vars

\* the ids of a list of movies
IdsOf(list) == {list[k].id : k \in 1 .. Len(list)}

\* C28: in the movie list the selected ids are always among the ids
\* displayed, so the items handed to a bulk action are displayed ones, and the
\* header checkbox is checked exactly when every displayed item is selected
C28_AsClaimed ==
    view.page = "list"
       => /\ view.selectedIds \subseteq IdsOf(filteredMovies(view))
          /\ IdsOf(selectedMovies(view)) \subseteq IdsOf(filteredMovies(view))
          /\ headerChecked(view)
                <=> (filteredMovies(view) # <<>>
                        /\ IdsOf(filteredMovies(view)) \subseteq view.selectedIds)

\* the awaited call of a handler's loop resolves in this step
JobCallResolves ==
    /\ view.page = "bulk"
    /\ view.calls # <<>>
    /\ Len(view'.calls) = Len(view.calls)
    /\ view.calls[Len(view.calls)].state = "pending"
    /\ view'.calls[Len(view.calls)].state = "ok"

\* C29: a bulk set-monitored (or change-quality) call changes only the
\* monitored flag (or the quality-profile id) of its item upstream: the path
\* and the other attribute keep the value they have upstream when the call is
\* made, also when it differs from the value in the list the dashboard holds
C29_AsClaimed ==
    [][(JobCallResolves /\ view.job.kind \in {"monitored", "quality"})
          => LET id == view.calls[Len(view.calls)].id
             IN /\ view'.upstream[id].path = view.upstream[id].path
                /\ view.job.kind = "monitored"
                      => view'.upstream[id].qualityProfileId
                            = view.upstream[id].qualityProfileId
                /\ view.job.kind = "quality"
                      => view'.upstream[id].monitored = view.upstream[id].monitored]_vars

\* C30: on the Settings page the status of a save is never 'saving' when no
\* save request of that button is in flight, and a status of 'saving' is
\* always followed by a status of 'idle', whether the request is fulfilled or
\* rejected
C30_AsClaimed ==
    /\ [](view.page = "settings"
            => \A s \in Savers : view.status[s] = "saving" => view.pending[s])
    /\ \A s \in Savers :
          (view.page = "settings" /\ view.status[s] = "saving")
              ~> (view.page = "settings" /\ view.status[s] = "idle")

=============================================================================
